---- MODULE Spec2Model ----
(***************************************************************************)
(* StagVault: the client-side search coordinator (stagvault/static/web/    *)
(* app.js) and the provider client with its localStorage cache             *)
(* (static/js/stagvault.js), as state machines.                            *)
(*                                                                         *)
(* Time is counted in clock units of 12 hours, so that the 24 hour         *)
(* time-to-live of both caches is 2 units. The rate limit tracker works    *)
(* on a scale of seconds: its clock and its waits are counted in whole     *)
(* seconds (the code holds them in milliseconds, 1000 to the second).      *)
(***************************************************************************)
EXTENDS Integers, Sequences, FiniteSets, TLC

VARIABLES
    storage,    \* ProviderCache: the localStorage items under the cache prefix
    now,        \* Date.now(), in clock units
    ret,        \* what the last call returned to its caller
    ops,        \* the number of cache calls made so far
    client,     \* ProviderClient: the searchImages call in flight and its outcome
    limits,     \* RateLimitTracker: this.limits, the last record of every provider
    direct,     \* ProviderClient: the _directRequest call in flight and its outcome
    seconds,    \* Date.now() in seconds, as the rate limit tracker reads it
    keyProbe,   \* ProviderClient: two _cacheKey calls, their params and their keys
    probe,      \* app: one call of a pure method, its arguments and its result
    searchInput,            \* app: the text of the search box
    searchDebounceTimer,    \* app: whether the 150 ms timer of the search box is pending
    currentSearchId,        \* app: the search generation
    apiSearchDebounceTimer, \* app: handle of the last API debounce timer, 0 for null
    tasks,                  \* app: the asynchronous flows, by the generation that started them
    display,                \* app: what resultsContainer and statsText show
    currentResults,         \* app: this.currentResults
    prefixCache,            \* app: the prefixes whose shard is memoized
    excludedSources,        \* app: this.excludedSources
    excludedLicenses,       \* app: this.excludedLicenses
    sidebar,                \* app: the checkboxes of the sources tree
    apiProviders,           \* app: enabled and apiKey of every provider
    apiCache,               \* app: this.apiCache
    cacheSaveTimer,         \* app: whether the save timer of the API cache is pending
    savedApiCache           \* app: localStorage item stagvault_api_cache

directVars == <<limits, direct, seconds, keyProbe, probe>>
cacheVars == <<storage, ret, ops, client, directVars>>
appVars == <<searchInput, searchDebounceTimer, currentSearchId, apiSearchDebounceTimer, tasks, display,
             currentResults, prefixCache, excludedSources, excludedLicenses, sidebar,
             apiProviders, apiCache, cacheSaveTimer, savedApiCache>>
vars == <<cacheVars, now, appVars>>

(***************************************************************************)
(* Bounds of the model.                                                    *)
(***************************************************************************)
MaxSize == 4            \* options.maxSize of the ProviderCache under test
KeysPerProvider == 2    \* cache keys per provider
MaxTime == 3            \* the clock stops here
MaxOps == 4             \* cache calls and clock ticks in one run
MaxSearches == 2        \* performSearch calls in one run
LiveSearches == 1       \* the searches started in a run that is checked for progress
CachedBefore == 99      \* the responses in apiCache when the run starts
FreshUrls == 2          \* the request URLs that get their first response in the run
KeySearches == 1        \* the searches started in a run in which the settings change
MaxText == 4            \* the longest text handed to stripHtml
MaxItems == 2           \* the longest list handed to applyFilters
MaxSeconds == 3         \* the clock of the rate limit tracker stops here
ClockStep == 400        \* the time that passes in one step of a pending timer, in ms

(***************************************************************************)
(* Program constants.                                                      *)
(***************************************************************************)
DefaultTTL == 2         \* defaultTTL: 86400000 ms = 2 clock units

(***************************************************************************)
(* Sequence helpers.                                                       *)
(***************************************************************************)
Range(s) == {s[i] : i \in 1..Len(s)}

RemoveAt(s, i) == SubSeq(s, 1, i - 1) \o SubSeq(s, i + 1, Len(s))

\* Array.prototype.indexOf, 1-based; 0 when absent
IndexOf(s, x) ==
    IF x \in Range(s) THEN CHOOSE i \in 1..Len(s) : s[i] = x /\ \A j \in 1..(i - 1) : s[j] # x
    ELSE 0

\* Array.prototype.splice(indexOf(x), 1) guarded by idx > -1
Splice(s, x) == IF IndexOf(s, x) > 0 THEN RemoveAt(s, IndexOf(s, x)) ELSE s

(***************************************************************************)
(* The search coordinator (stagvault/static/web/app.js, class StagVault).  *)
(* Strings the code inspects character by character are sequences of       *)
(* one-character strings.                                                  *)
(***************************************************************************)
Min(a, b) == IF a < b THEN a ELSE b
Max(a, b) == IF a > b THEN a ELSE b

\* Array.prototype.slice(0, n)
Take(s, n) == SubSeq(s, 1, Min(n, Len(s)))

\* String.prototype.toLowerCase
LowerChar(c) ==
    CASE c = "A" -> "a"
      [] c = "B" -> "b"
      [] c = "C" -> "c"
      [] c = "D" -> "d"
      [] c = "S" -> "s"
      [] c = "U" -> "u"
      [] OTHER -> c
ToLowerCase(s) == [i \in 1..Len(s) |-> LowerChar(s[i])]

\* String.prototype.trim
RECURSIVE TrimStart(_)
TrimStart(s) == IF s # <<>> /\ Head(s) = " " THEN TrimStart(Tail(s)) ELSE s
RECURSIVE TrimEnd(_)
TrimEnd(s) == IF s # <<>> /\ s[Len(s)] = " " THEN TrimEnd(SubSeq(s, 1, Len(s) - 1)) ELSE s
Trim(s) == TrimEnd(TrimStart(s))

\* String.prototype.startsWith, endsWith, includes, substring(0, n)
SeqStartsWith(s, q) == Len(q) <= Len(s) /\ SubSeq(s, 1, Len(q)) = q
SeqEndsWith(s, q) == Len(q) <= Len(s) /\ SubSeq(s, Len(s) - Len(q) + 1, Len(s)) = q
Includes(s, q) == \E i \in 1..(Len(s) - Len(q) + 1) : SubSeq(s, i, i + Len(q) - 1) = q
Substring(s, n) == Take(s, n)

\* the limits of the sample view and of the result grid
SamplePrefixes == 100       \* prefixManifest.slice(0, 100)
SamplesPerPrefix == 10      \* filtered.slice(0, 10)
SamplesEnough == 400        \* samples.length >= 400
SamplesShown == 120         \* slice(0, 120)
ResultsShown == 200         \* results.slice(0, 200)
MinQueryLength == 2         \* query.length < 2
ApiCacheTTL == 2            \* API_CACHE_TTL: 24 hours = 2 clock units
ApiCacheSaved == 100        \* saveApiCache keeps the 100 most recent entries
ApiDebounce == 800          \* setTimeout(..., 800) of the API search, in ms

\* the index the page is served with: index/search/_manifest.json and its shards
Item(source, name, tags, license, apiItem) ==
    [id |-> <<source, name>>, n |-> name, t |-> tags, s |-> source, l |-> license,
     api |-> apiItem]

prefixManifest == << <<"a", "b">>, <<"c", "d">> >>

Shard(prefix) ==
    IF prefix = <<"a", "b">>
    THEN << Item("lucide", <<"c", "a", "b">>, << <<"a", "b">> >>, "ISC", FALSE),
            Item("feather", <<"A", "b">>, <<>>, "MIT", FALSE) >>
    ELSE << Item("feather", <<"c", "d">>, << <<"c", "d", "s">> >>, "MIT", FALSE) >>

\* the providers, in the order of Object.entries(this.apiProviders)
ProviderOrder == <<"pexels", "pixabay", "unsplash", "wikimedia">>
Providers == Range(ProviderOrder)

\* what a provider answers to a query, mapped to result items
ApiItems(p, query) ==
    << Item(p, <<"p", " ">> \o query, << <<"p", "h">> >>, "Provider License", TRUE) >>

\* the texts typed into the search box, and the queries they make
SearchInputs == { <<"a">>, <<"A", "b", " ">>, <<"c", "d">> }
Queries == { ToLowerCase(Trim(i)) : i \in SearchInputs }
ApiQueries == { q \in Queries : Len(q) >= MinQueryLength }
ApiUrls == Providers \X ApiQueries

\* the leaf of the sources tree whose checkbox is used
FilterSources == {"pexels"}

(***************************************************************************)
(* apiProviders after the constructor: the defaults, then loadApiKeys.     *)
(***************************************************************************)
DefaultProviders ==
    [p \in Providers |->
        [enabled |-> (p = "wikimedia"), apiKey |-> "null"]]

\* the settings localStorage can hold: none, a key for pexels, wikimedia switched off
StoredSettings == {"none", "keys", "off"}

loadApiKeys(stored) ==
    CASE stored = "keys" ->
            [p \in Providers |->
                IF p \in {"pexels"} THEN [enabled |-> TRUE, apiKey |-> "key"]
                ELSE DefaultProviders[p]]
      [] stored = "off" ->
            [DefaultProviders EXCEPT !["wikimedia"].enabled = FALSE]
      [] OTHER -> DefaultProviders

getEnabledProviders(providers) ==
    SelectSeq(ProviderOrder,
           LAMBDA p : providers[p].enabled /\ (p = "wikimedia" \/ providers[p].apiKey # "null"))

(***************************************************************************)
(* Filtering and ranking.                                                  *)
(***************************************************************************)
\* the sources of sources.json, and the first license of a provider's config
StaticSources ==
    << [id |-> "feather", license |-> "MIT"], [id |-> "lucide", license |-> "ISC"],
       [id |-> "noto-emoji", license |-> "Apache-2.0"] >>
ProviderLicense(p) ==
    CASE p = "pexels" -> "Pexels License"
      [] p = "pixabay" -> "Pixabay License"
      [] p = "unsplash" -> "Unsplash License"
      [] OTHER -> "CC0"

\* this.sources once addApiSourcesToTree has added the providers that search
sources(providers) ==
    LET enabled == getEnabledProviders(providers)
    IN  StaticSources
          \o [i \in 1..Len(enabled) |->
                 [id |-> enabled[i], license |-> ProviderLicense(enabled[i])]]
SourceIds(providers) == {sources(providers)[i].id : i \in 1..Len(sources(providers))}

\* item.l || this.sources.find(s => s.id === item.s)?.license; "" is no license
itemLicense(item, srcs) ==
    IF item.l # "" THEN item.l
    ELSE IF \E i \in 1..Len(srcs) : srcs[i].id = item.s
         THEN srcs[CHOOSE i \in 1..Len(srcs) :
                      srcs[i].id = item.s /\ \A j \in 1..(i - 1) : srcs[j].id # item.s].license
         ELSE "undefined"

\* a filter that looks at the item's own license only
applyFiltersOwnLicense(items, exSources, exLicenses) ==
    SelectSeq(items, LAMBDA item : ~(item.s \in exSources) /\ ~(item.l \in exLicenses))

applyFilters(items, exSources, exLicenses) ==
    LET srcs == sources(apiProviders)
    IN  SelectSeq(items,
                  LAMBDA item :
                      /\ ~(item.s \in exSources)
                      /\ ~(exLicenses # {} /\ itemLicense(item, srcs) \in exLicenses))

(***************************************************************************)
(* The sources tree of the sidebar.  A tree is the sequence of its         *)
(* entries; an entry holds a list of source ids or a tree of entries.      *)
(***************************************************************************)
Node(key, kind, ids, children) ==
    [key |-> key, kind |-> kind, ids |-> ids, children |-> children]

\* this.sourceTree
sourceTree ==
    << Node("Vector", "branch", <<>>,
            << Node("Icons", "list", <<"feather", "lucide">>, <<>>),
               Node("Emoji", "list", <<"noto-emoji">>, <<>>) >>),
       Node("Photos", "branch", <<>>,
            << Node("_sources", "list", <<"pexels", "pixabay">>, <<>>) >>) >>

RECURSIVE getSourceIdsInBranch(_)
getSourceIdsInBranch(branch) ==
    IF branch = <<>> THEN <<>>
    ELSE LET e == Head(branch)
         IN  (IF e.kind = "list" THEN e.ids ELSE getSourceIdsInBranch(e.children))
                \o getSourceIdsInBranch(Tail(branch))

getAllSourceIds(tree) == getSourceIdsInBranch(tree)

RECURSIVE findInBranch(_, _)
findInBranch(tree, branchName) ==
    IF tree = <<>> THEN <<>>
    ELSE LET e == Head(tree)
             below == IF e.kind = "branch" THEN findInBranch(e.children, branchName)
                      ELSE <<>>
         IN  IF e.key = branchName
             THEN (IF e.kind = "list" THEN e.ids ELSE getSourceIdsInBranch(e.children))
             ELSE IF Len(below) > 0 THEN below
             ELSE findInBranch(Tail(tree), branchName)
findSourcesInTree(branchName) == findInBranch(sourceTree, branchName)

\* the entry of the tree that buildTreeHtml renders as the branch of a name
RECURSIVE FindNode(_, _)
FindNode(tree, name) ==
    IF tree = <<>> THEN Node("", "list", <<>>, <<>>)
    ELSE LET e == Head(tree)
             below == IF e.kind = "branch" THEN FindNode(e.children, name)
                      ELSE Node("", "list", <<>>, <<>>)
         IN  IF e.key = name THEN e
             ELSE IF below.key = name THEN below
             ELSE FindNode(Tail(tree), name)

\* the keys that buildTreeHtml renders with a branch checkbox
RECURSIVE BranchKeys(_)
BranchKeys(tree) ==
    IF tree = <<>> THEN {}
    ELSE LET e == Head(tree)
         IN  (IF e.key = "_sources" THEN {} ELSE {e.key})
                \cup (IF e.kind = "branch" THEN BranchKeys(e.children) ELSE {})
                \cup BranchKeys(Tail(tree))

\* the sources of the "Other" branch: those of this.sources the tree does not name
Ungrouped(providers) ==
    LET srcs == sources(providers)
        ids == [i \in 1..Len(srcs) |-> srcs[i].id]
    IN  SelectSeq(ids, LAMBDA id : ~(id \in Range(getAllSourceIds(sourceTree))))

AllBranches == BranchKeys(sourceTree) \cup {"Other"}
Branches(providers) ==
    BranchKeys(sourceTree) \cup (IF Ungrouped(providers) # <<>> THEN {"Other"} ELSE {})

\* the source ids under a branch
BranchSourceIds(name, providers) ==
    IF name = "Other" THEN Ungrouped(providers) ELSE findSourcesInTree(name)

\* the source items rendered inside the element of a branch: renderSourceItem
\* runs for the ids that this.sources holds
BranchItems(name, providers) == Range(BranchSourceIds(name, providers)) \cap SourceIds(providers)

\* the branch checkboxes nested inside the element of a branch
NestedBranches(name) ==
    IF name = "Other" THEN {} ELSE BranchKeys(FindNode(sourceTree, name).children)

\* checkbox.dataset.sources
DataSources(name, providers) ==
    IF name = "Other" THEN Ungrouped(providers)
    ELSE IF FindNode(sourceTree, name).kind = "list" THEN FindNode(sourceTree, name).ids
    ELSE <<>>

AllSourceIds == Range(getAllSourceIds(sourceTree)) \cup Providers
Box(checked, indeterminate) == [checked |-> checked, indeterminate |-> indeterminate]

\* the tree as renderSourcesTree builds it while nothing is excluded
renderSourcesTree ==
    [leaf |-> [id \in AllSourceIds |-> TRUE],
     branch |-> [b \in AllBranches |-> Box(TRUE, FALSE)]]

\* an update that leaves the branch checkboxes as they are
updateNoCheckboxes(sb, providers) == sb
updateParentCheckboxes(sb, providers) ==
    [sb EXCEPT !.branch =
        [b \in AllBranches |->
            LET childCheckboxes == BranchItems(b, providers)
                allChecked == \A id \in childCheckboxes : sb.leaf[id]
                noneChecked == \A id \in childCheckboxes : ~sb.leaf[id]
            IN  IF ~(b \in Branches(providers)) \/ childCheckboxes = {} THEN sb.branch[b]
                ELSE Box(allChecked, ~allChecked /\ ~noneChecked)]]


Lower(tags) == [i \in 1..Len(tags) |-> ToLowerCase(tags[i])]

\* the filter of searchStaticIndex
Matches(item, query) ==
    \/ Includes(ToLowerCase(item.n), query)
    \/ \E i \in 1..Len(item.t) : Includes(ToLowerCase(item.t[i]), query)

\* a score without the clamp of the length bonus
getMatchScoreUnclamped(item, query) ==
    LET name == ToLowerCase(item.n)
        tags == Lower(item.t)
        byName ==
            IF name = query THEN 1000
            ELSE IF SeqStartsWith(name, query) THEN 500
            ELSE IF \/ Includes(name, <<":", " ">> \o query)
                    \/ SeqEndsWith(name, <<" ">> \o query)
                    \/ Includes(name, <<" ">> \o query \o <<" ">>) THEN 350
            ELSE IF Includes(name, query) THEN 100
            ELSE 0
        byTags ==
            IF query \in Range(tags) THEN 600
            ELSE IF \E i \in 1..Len(tags) : SeqStartsWith(tags[i], query) THEN 250
            ELSE IF \E i \in 1..Len(tags) : Includes(tags[i], query) THEN 50
            ELSE 0
    IN  byName + byTags + (30 - Len(name))

getMatchScore(item, query) ==
    LET name == ToLowerCase(item.n)
        tags == Lower(item.t)
        byName ==
            IF name = query THEN 1000
            ELSE IF SeqStartsWith(name, query) THEN 500
            ELSE IF \/ Includes(name, <<":", " ">> \o query)
                    \/ SeqEndsWith(name, <<" ">> \o query)
                    \/ Includes(name, <<" ">> \o query \o <<" ">>) THEN 350
            ELSE IF Includes(name, query) THEN 100
            ELSE 0
        byTags ==
            IF query \in Range(tags) THEN 600
            ELSE IF \E i \in 1..Len(tags) : SeqStartsWith(tags[i], query) THEN 250
            ELSE IF \E i \in 1..Len(tags) : Includes(tags[i], query) THEN 50
            ELSE 0
    IN  byName + byTags + Max(0, 30 - Len(name))

\* a sort by ascending score
RECURSIVE InsertAscending(_, _, _)
InsertAscending(sorted, item, query) ==
    IF sorted = <<>> THEN <<item>>
    ELSE IF getMatchScore(Head(sorted), query) <= getMatchScore(item, query)
         THEN <<Head(sorted)>> \o InsertAscending(Tail(sorted), item, query)
         ELSE <<item>> \o sorted

\* Array.prototype.sort by descending score, stable
RECURSIVE InsertRanked(_, _, _)
InsertRanked(sorted, item, query) ==
    IF sorted = <<>> THEN <<item>>
    ELSE IF getMatchScore(Head(sorted), query) >= getMatchScore(item, query)
         THEN <<Head(sorted)>> \o InsertRanked(Tail(sorted), item, query)
         ELSE <<item>> \o sorted

RECURSIVE rankResults(_, _)
rankResults(results, query) ==
    IF results = <<>> THEN <<>>
    ELSE InsertRanked(rankResults(SubSeq(results, 1, Len(results) - 1), query),
                      results[Len(results)], query)

\* the names, tag lists and queries the ranking is tried on
ScoreNames ==
    {<<"u", "s">>,
     <<"U", "S">>,
     <<"u", "s", "e", "r">>,
     <<"x", ":", " ", "u", "s", "a">>,
     <<"a", " ", "u", "s">>,
     <<"a", " ", "u", "s", " ", "b">>,
     <<"a", " ", "u", "s", "a">>,
     <<"f", "o", "c", "u", "s">>,
     <<"d", "e", "l", "e", "t", "e">>,
     <<"d", "e">>,
     <<"x", "x", "x", "x", "x", "x", "x", "x", "x", "x", "x", "x", "x", "x", "x", "x", "x", "x", "x", "x", "x", "x", "x", "x", "x", "x", "x", "x", "x", "x", "x">>}
ScoreTags ==
    {<<>>,
     <<<<"u", "s">>>>,
     <<<<"U", "S">>, <<"i", "c", "o", "n">>>>,
     <<<<"u", "s", "a">>>>,
     <<<<"p", "l", "u", "s">>>>,
     <<<<"i", "c", "o", "n">>>>,
     <<<<"d", "e">>>>}
ScoreQueries == {<<"u", "s">>, <<"d", "e">>}
ScoreItems == {Item("feather", n, t, "MIT", FALSE) : n \in ScoreNames, t \in ScoreTags}

\* no call made yet
NoCall == [pc |-> "idle"]

\* searchStaticIndex once the shard is at hand
StaticResults(items, query, exSources, exLicenses) ==
    applyFilters(SelectSeq(items, LAMBDA item : Matches(item, query)), exSources, exLicenses)

\* removal of the later items that repeat an id
RECURSIVE Unique(_)
Unique(s) ==
    IF s = <<>> THEN <<>>
    ELSE LET front == Unique(SubSeq(s, 1, Len(s) - 1))
             last == s[Len(s)]
         IN  IF \E i \in 1..Len(front) : front[i].id = last.id THEN front
             ELSE Append(front, last)

\* the orders a sort with a random comparator can leave
Shuffles(s) == { p \in [1..Len(s) -> Range(s)] : Range(p) = Range(s) }

(***************************************************************************)
(* The state of the page.                                                  *)
(***************************************************************************)
NoGot == [p \in Providers |-> <<>>]

\* a flow that has not started
NoTask ==
    [pc |-> "idle", query |-> <<>>, pos |-> 0, samples |-> <<>>,
     staticResults |-> <<>>, waited |-> 0, pending |-> {}, got |-> NoGot]

NoApiEntry == [kind |-> "none", data |-> <<>>, timestamp |-> 0, expires |-> 0]
ApiEntry(data, t) ==
    [kind |-> "entry", data |-> data, timestamp |-> t, expires |-> t + ApiCacheTTL]
EmptyApiCache == [u \in ApiUrls |-> NoApiEntry]

\* a response that is dropped instead of cached
dropApiResponse(cache, url, data, t) == cache
\* setCachedApiResponse(url, data): this.apiCache.set(url, entry)
setCachedApiResponse(cache, url, data, t) == [cache EXCEPT ![url] = ApiEntry(data, t)]

\* resultsContainer and statsText; query <<>> stands for null
View(kind, by, items, stats, query) ==
    [kind |-> kind, by |-> by, items |-> items, stats |-> stats, query |-> query]

showEmptyState(view, by) == [view EXCEPT !.kind = "empty", !.by = by, !.items = <<>>]
showError(view, by) == [view EXCEPT !.kind = "error", !.by = by, !.items = <<>>]
showLoading(view, by) == [view EXCEPT !.kind = "loading", !.by = by, !.items = <<>>]

displayResults(results, query, apiPending, by, providers, exSources, exLicenses) ==
    LET apiCount == Len(SelectSeq(results, LAMBDA r : r.api))
        stats ==
            IF query # <<>>
            THEN IF apiCount > 0 THEN "found with APIs"
                 ELSE IF apiPending /\ Len(getEnabledProviders(providers)) > 0
                      THEN "found, searching APIs"
                      ELSE "found"
            ELSE IF Cardinality(exSources) + Cardinality(exLicenses) > 0 THEN "filtered"
                 ELSE "total"
    IN  IF Len(results) = 0 THEN View("empty", by, <<>>, stats, query)
        ELSE View("grid", by, Take(results, ResultsShown), stats, query)

\* the loop of loadAndDisplaySamples from entry pos on, up to its next await
RECURSIVE SampleLoop(_, _, _, _, _)
SampleLoop(pos, samples, cache, exSources, exLicenses) ==
    LET prefixesToTry == Take(prefixManifest, SamplePrefixes)
    IN  IF pos > Len(prefixesToTry) THEN [await |-> 0, samples |-> samples]
        ELSE IF ~(prefixesToTry[pos] \in cache) THEN [await |-> pos, samples |-> samples]
        ELSE LET filtered == applyFilters(Shard(prefixesToTry[pos]), exSources, exLicenses)
                 more == samples \o Take(filtered, SamplesPerPrefix)
             IN  IF Len(more) >= SamplesEnough THEN [await |-> 0, samples |-> more]
                 ELSE SampleLoop(pos + 1, more, cache, exSources, exLicenses)

\* Promise.all(searches) then results.flat()
RECURSIVE Flat(_, _)
Flat(ps, got) == IF ps = <<>> THEN <<>> ELSE got[Head(ps)] \o Flat(Tail(ps), got)

\* a fan-out that sends a request to every provider, whatever its settings
FanOutAll(ps, query, providers, cache, t) ==
    [cache |-> cache, pending |-> Providers, got |-> NoGot]
\* searchApiProviders up to its await: every enabled provider looks into
\* apiCache (getCachedApiResponse drops an expired entry) and fetches on a miss
RECURSIVE FanOut(_, _, _, _, _)
FanOut(ps, query, providers, cache, t) ==
    IF ps = <<>> THEN [cache |-> cache, pending |-> {}, got |-> NoGot]
    ELSE LET p == Head(ps)
             url == <<p, query>>
             usable == providers[p].enabled /\ (p = "wikimedia" \/ providers[p].apiKey # "null")
             entry == cache[url]
             hit == usable /\ entry.kind = "entry" /\ entry.expires > t
             cache1 == IF usable /\ entry.kind = "entry" /\ ~hit
                       THEN [cache EXCEPT ![url] = NoApiEntry] ELSE cache
             rest == FanOut(Tail(ps), query, providers, cache1, t)
         IN  [cache |-> rest.cache,
              pending |-> IF usable /\ ~hit THEN rest.pending \cup {p} ELSE rest.pending,
              got |-> IF hit THEN [rest.got EXCEPT ![p] = entry.data] ELSE rest.got]

\* a timer that is due as soon as it is set
ExpiredAtOnce(waited) == waited >= 0
\* setTimeout(callback, 800): the callback runs once the delay has passed
Expired(waited) == waited >= ApiDebounce

\* a join that does not wait for the last search
JoinedAny(pending) == Cardinality(pending) <= 1
\* the join of searchApiProviders: Promise.all resolves once no search is pending
Joined(pending) == pending = {}

\* the page once init() has run: showInitialState has started the sample load
AppInit(stored) ==
    /\ searchInput = <<>>
    /\ searchDebounceTimer = FALSE
    /\ currentSearchId = 0
    /\ apiSearchDebounceTimer = 0
    /\ tasks = [g \in 0..MaxSearches |->
                    IF g = 0 THEN [NoTask EXCEPT !.pc = "sample", !.pos = 1] ELSE NoTask]
    /\ display = View("blank", 0, <<>>, "total", <<>>)
    /\ currentResults = <<>>
    /\ prefixCache = {}
    /\ excludedSources = {}
    /\ excludedLicenses = {}
    /\ sidebar = renderSourcesTree
    /\ apiProviders = loadApiKeys(stored)
    /\ apiCache = EmptyApiCache
    /\ cacheSaveTimer = FALSE
    /\ savedApiCache = EmptyApiCache


(***************************************************************************)
(* ProviderCache (static/js/stagvault.js).                                 *)
(***************************************************************************)
CacheProviders == {"pexels", "pixabay"}
CacheKeys == (CacheProviders \X (1..KeysPerProvider)) \cup {<<"multi", 1>>}
Values == {"v1"}
TTLs == {1, DefaultTTL}

NoEntry == [kind |-> "none", value |-> "null", expires |-> 0, created |-> 0]
CorruptEntry == [kind |-> "corrupt", value |-> "null", expires |-> 0, created |-> 0]
Entry(v, e, c) == [kind |-> "entry", value |-> v, expires |-> e, created |-> c]

NoTimestamps == [k \in CacheKeys |-> 0]
\* the default of _getIndex: { keys: [], timestamps: {} }
EmptyIndex == [keys |-> <<>>, timestamps |-> NoTimestamps]
NoIndex == [kind |-> "none", keys |-> <<>>, timestamps |-> NoTimestamps]
CorruptIndex == [kind |-> "corrupt", keys |-> <<>>, timestamps |-> NoTimestamps]
StoredIndex(index) == [kind |-> "index", keys |-> index.keys, timestamps |-> index.timestamps]

EmptyStorage == [items |-> [k \in CacheKeys |-> NoEntry], index |-> NoIndex]

RECURSIVE SetToSeq(_)
SetToSeq(S) == IF S = {} THEN <<>>
               ELSE LET x == CHOOSE x \in S : TRUE IN <<x>> \o SetToSeq(S \ {x})

\* what an earlier page load left in localStorage: one key short of capacity,
\* every entry written at time 1 with the default time-to-live
WarmKeys == SubSeq(SetToSeq(CacheKeys), 1, MaxSize - 1)
WarmStorage ==
    [items |-> [k \in CacheKeys |-> IF k \in Range(WarmKeys) THEN Entry("v1", 1 + DefaultTTL, 1)
                                    ELSE NoEntry],
     index |-> [kind |-> "index", keys |-> WarmKeys,
                timestamps |-> [k \in CacheKeys |-> IF k \in Range(WarmKeys) THEN 1 ELSE 0]]]

(***************************************************************************)
(* What the storage does to the setItem calls of one operation: the k-th   *)
(* call throws iff pre[k] (k <= Len(pre)), and every later call throws iff *)
(* rest (a store that is full for good).                                   *)
(***************************************************************************)
AllOk == [pre |-> <<>>, rest |-> FALSE]
FailFirst == [pre |-> <<TRUE>>, rest |-> FALSE]
FailSecond == [pre |-> <<FALSE, TRUE>>, rest |-> FALSE]
FailRetry == [pre |-> <<TRUE, FALSE, TRUE>>, rest |-> FALSE]
FailAlways == [pre |-> <<>>, rest |-> TRUE]
WritePatterns == {AllOk, FailFirst, FailSecond, FailRetry, FailAlways}

\* does the k-th setItem of the operation throw
WriteFails(pat, k) == IF k <= Len(pat.pre) THEN pat.pre[k] ELSE pat.rest

\* the result of an internal call: the storage, the setItem calls made so
\* far, and whether an exception left the call
Res(st, w, threw) == [st |-> st, w |-> w, threw |-> threw]

_getIndex(st) ==
    IF st.index.kind = "index"
    THEN [keys |-> st.index.keys, timestamps |-> st.index.timestamps]
    ELSE EmptyIndex

\* index.timestamps[k] || 0
Stamp(index, k) == index.timestamps[k]

\* Array.prototype.sort with (a, b) => stamp(a) - stamp(b): stable, oldest first
RECURSIVE SortByStamp(_, _)
SortByStamp(keys, index) ==
    IF keys = <<>> THEN <<>>
    ELSE LET i == CHOOSE i \in 1..Len(keys) :
                      /\ \A j \in 1..Len(keys) : Stamp(index, keys[i]) <= Stamp(index, keys[j])
                      /\ \A j \in 1..(i - 1) : Stamp(index, keys[j]) # Stamp(index, keys[i])
         IN <<keys[i]>> \o SortByStamp(RemoveAt(keys, i), index)

\* the loop of _evict: sorted is index.keys itself (sort works in place and
\* returns its receiver), so every splice also shortens and shifts sorted
RECURSIVE EvictLoop(_, _, _, _)
EvictLoop(items, index, i, count) ==
    IF i < count /\ i < Len(index.keys)
    THEN LET key == index.keys[i + 1]
         IN EvictLoop([items EXCEPT ![key] = NoEntry],
                      [keys |-> Splice(index.keys, key),
                       timestamps |-> [index.timestamps EXCEPT ![key] = 0]],
                      i + 1, count)
    ELSE [items |-> items, index |-> index]

RECURSIVE _evict(_, _, _, _), _setIndex(_, _, _, _)

\* _setIndex(index): a failed write evicts floor(maxSize/2) entries, and that
\* eviction ends in _setIndex again. Once the store rejects every write the
\* two call each other without end (the storage no longer changes after the
\* first such round) until the stack overflows: the RangeError leaves the call.
_setIndex(st, index, w, pat) ==
    IF ~WriteFails(pat, w + 1)
    THEN Res([st EXCEPT !.index = StoredIndex(index)], w + 1, FALSE)
    ELSE IF pat.rest /\ w > Len(pat.pre)
         THEN Res(st, w + 1, TRUE)
         ELSE _evict(st, MaxSize \div 2, w + 1, pat)

_evict(st, count, w, pat) ==
    LET index == _getIndex(st)
        sorted == [keys |-> SortByStamp(index.keys, index), timestamps |-> index.timestamps]
        done == EvictLoop(st.items, sorted, 0, count)
    IN _setIndex([st EXCEPT !.items = done.items], done.index, w, pat)

\* delete(key)
delete(st, key, w, pat) ==
    LET st1 == [st EXCEPT !.items[key] = NoEntry]
        index == _getIndex(st1)
    IN IF IndexOf(index.keys, key) > 0
       THEN _setIndex(st1, [keys |-> Splice(index.keys, key),
                            timestamps |-> [index.timestamps EXCEPT ![key] = 0]], w, pat)
       ELSE Res(st1, w, FALSE)

\* get(key): everything after getItem runs inside try { } catch { return null }
get(st, key, t, pat) ==
    LET stored == st.items[key]
    IN IF stored.kind = "none" THEN [st |-> st, value |-> "null", threw |-> FALSE]
       ELSE IF stored.kind = "corrupt" THEN [st |-> st, value |-> "null", threw |-> FALSE]
       ELSE IF t > stored.expires
            THEN [st |-> delete(st, key, 0, pat).st, value |-> "null", threw |-> FALSE]
            ELSE LET index == _getIndex(st)
                     r == _setIndex(st, [index EXCEPT !.timestamps[key] = t], 0, pat)
                 IN [st |-> r.st, value |-> IF r.threw THEN "null" ELSE stored.value,
                     threw |-> FALSE]

\* the catch block of set: evict half, retry the entry write once, give up
SetCatch(st, key, data, w, pat) ==
    LET r == _evict(st, MaxSize \div 2, w, pat)
    IN IF r.threw THEN r
       ELSE IF WriteFails(pat, r.w + 1) THEN Res(r.st, r.w + 1, FALSE)
       ELSE Res([r.st EXCEPT !.items[key] = data], r.w + 1, FALSE)

\* the try block of set, with the index read before the capacity eviction
SetTry(st, index, key, data, t, w, pat) ==
    IF WriteFails(pat, w + 1) THEN SetCatch(st, key, data, w + 1, pat)
    ELSE LET st1 == [st EXCEPT !.items[key] = data]
             keys1 == IF IndexOf(index.keys, key) > 0 THEN index.keys
                      ELSE Append(index.keys, key)
             r == _setIndex(st1, [keys |-> keys1,
                                  timestamps |-> [index.timestamps EXCEPT ![key] = t]],
                            w + 1, pat)
         IN IF r.threw THEN SetCatch(r.st, key, data, r.w, pat) ELSE r

\* set(key, value, ttl)
set(st, key, value, ttl, t, pat) ==
    LET index == _getIndex(st)
        data == Entry(value, t + ttl, t)
    IN IF Len(index.keys) >= MaxSize /\ IndexOf(index.keys, key) = 0
       THEN LET r == _evict(st, MaxSize \div 4, 0, pat)
            IN IF r.threw THEN r ELSE SetTry(r.st, index, key, data, t, r.w, pat)
       ELSE SetTry(st, index, key, data, t, 0, pat)

\* k.startsWith(providerPrefix): a key is "<provider>:<method>:<params>", and
\* no provider id is a prefix of another
StartsWith(key, providerPrefix) == key[1] = providerPrefix

\* the loop of clear over keysToDelete
RECURSIVE ClearLoop(_, _, _)
ClearLoop(items, index, keysToDelete) ==
    IF keysToDelete = <<>> THEN [items |-> items, index |-> index]
    ELSE LET key == Head(keysToDelete)
         IN ClearLoop([items EXCEPT ![key] = NoEntry],
                      IF IndexOf(index.keys, key) > 0
                      THEN [keys |-> Splice(index.keys, key),
                            timestamps |-> [index.timestamps EXCEPT ![key] = 0]]
                      ELSE index,
                      Tail(keysToDelete))

\* clear(providerPrefix), "null" for no prefix
clear(st, providerPrefix, pat) ==
    LET index == _getIndex(st)
        keysToDelete == IF providerPrefix # "null"
                        THEN SelectSeq(index.keys, LAMBDA k : StartsWith(k, providerPrefix))
                        ELSE index.keys
        done == ClearLoop(st.items, index, keysToDelete)
    IN _setIndex([st EXCEPT !.items = done.items], done.index, 0, pat)

\* stats().count
StatsCount(st) == Len(_getIndex(st).keys)

(***************************************************************************)
(* ProviderClient.searchImages in direct mode (static/js/stagvault.js).    *)
(***************************************************************************)
\* Object.keys(PROVIDER_CONFIGS), the default of options.providers
ClientProviders == <<"pixabay", "pexels">>

\* _cacheKey('multi', 'searchImages', ...) and _cacheKey(provider, 'searchImages', ...)
MultiKey == <<"multi", 1>>
ProviderKey(p) == <<p, 1>>

NoStatus == [p \in CacheProviders |-> "none"]
IdleClient == [pc |-> "idle", status |-> NoStatus, result |-> "null", cached |-> FALSE]

\* JSON.stringify of the result object: results[p] holds the images of the
\* providers whose search was fulfilled and { error, images: [] } for the rest
ResultJson(status) ==
    LET fulfilled == {p \in CacheProviders : status[p] = "fulfilled"}
    IN  CASE fulfilled = {} -> "images of no provider"
          [] fulfilled = {"pexels"} -> "images of pexels"
          [] fulfilled = {"pixabay"} -> "images of pixabay"
          [] OTHER -> "images of pexels and pixabay"

\* providers.map(p => this._searchProviderImages(p, ...)) up to the awaits:
\* each search reads its own cache key, and requests on a miss
RECURSIVE ProviderLookups(_, _, _, _, _)
ProviderLookups(ps, st, status, t, pat) ==
    IF ps = <<>> THEN [st |-> st, status |-> status]
    ELSE LET r == get(st, ProviderKey(Head(ps)), t, pat)
         IN  ProviderLookups(Tail(ps), r.st,
                             [status EXCEPT ![Head(ps)] =
                                 IF r.value # "null" THEN "fulfilled" ELSE "pending"],
                             t, pat)

(***************************************************************************)
(* The titles of the provider items (searchPexels, searchPixabay,          *)
(* searchUnsplash, searchWikimedia in app.js).  A text is the sequence of  *)
(* its characters; the empty text is the falsy one.                        *)
(***************************************************************************)
\* the texts a provider payload can hold in a field
PayloadTexts ==
    {<<>>,
     <<"s", "u", "n">>,
     <<"<", "b", ">", "s", "u", "n", "<", "/", "b", ">">>,
     <<"a", "<", "b">>,
     <<"s", "u", "n", ".", "j", "p", "g">>}

\* a || b
OrElse(a, b) == IF a # <<>> THEN a ELSE b

\* title.replace(/\.[^.]+$/, ''): the extension, when there is one, goes
RECURSIVE DropExtension(_, _)
DropExtension(text, i) ==
    IF i < 1 THEN text
    ELSE IF text[i] = "." THEN (IF i < Len(text) THEN SubSeq(text, 1, i - 1) ELSE text)
    ELSE DropExtension(text, i - 1)

\* page.title.replace(/^File:/, '').replace(/\.[^.]+$/, '')
WikimediaTitle(pageTitle) ==
    LET bare == IF Len(pageTitle) >= 5 /\ SubSeq(pageTitle, 1, 5) = <<"F", "i", "l", "e", ":">>
                THEN SubSeq(pageTitle, 6, Len(pageTitle)) ELSE pageTitle
    IN  DropExtension(bare, Len(bare))

\* the n of the item a provider search builds from a payload: first is alt,
\* tags, alt_description or ObjectName.value, second is Unsplash's
\* description, last is the id, the user's name or the page title
ItemName(provider, payload) ==
    CASE provider = "pexels" -> OrElse(payload.first, <<"P", "h", "o", "t", "o", " ">> \o payload.last)
      [] provider = "pixabay" -> OrElse(payload.first, <<"I", "m", "a", "g", "e", " ">> \o payload.last)
      [] provider = "unsplash" ->
            OrElse(payload.first,
                   OrElse(payload.second,
                          <<"P", "h", "o", "t", "o", " ", "b", "y", " ">> \o payload.last))
      [] OTHER -> OrElse(payload.first, WikimediaTitle(<<"F", "i", "l", "e", ":">> \o payload.last))

Letters ==
    {"a", "b", "c", "d", "e", "f", "g", "h", "i", "j", "k", "l", "m", "n",
     "o", "p", "q", "r", "s", "t", "u", "v", "w", "x", "y", "z", "A", "B",
     "C", "D", "E", "F", "G", "H", "I", "J", "K", "L", "M", "N", "O", "P",
     "Q", "R", "S", "T", "U", "V", "W", "X", "Y", "Z"}

\* /<[a-zA-Z][^>]*>/.test(text)
containsHtmlTags(text) ==
    \E i \in 1..Len(text) :
        /\ text[i] = "<"
        /\ i < Len(text)
        /\ text[i + 1] \in Letters
        /\ \E j \in (i + 2)..Len(text) : text[j] = ">"

(***************************************************************************)
(* stripHtml (tests/test_strip_html.js).  A value is a string with its     *)
(* text, or something else (null, undefined, a number, an array).          *)
(***************************************************************************)
TextChars == {"a", "<", ">", " "}
Texts == UNION {[1..n -> TextChars] : n \in 0..MaxText}
StripInputs ==
    {[kind |-> "string", text |-> t] : t \in Texts}
        \cup {[kind |-> k, text |-> <<>>] : k \in {"null", "undefined", "number", "array"}}

\* text.replace(/<[^>]*>/g, ''): from a '<' up to the next '>', when there is one
RECURSIVE ReplaceTags(_)
ReplaceTags(text) ==
    IF text = <<>> THEN <<>>
    ELSE IF Head(text) = "<" /\ \E i \in 2..Len(text) : text[i] = ">"
         THEN LET close == CHOOSE i \in 2..Len(text) :
                               text[i] = ">" /\ \A j \in 2..(i - 1) : text[j] # ">"
              IN  ReplaceTags(SubSeq(text, close + 1, Len(text)))
         ELSE <<Head(text)>> \o ReplaceTags(Tail(text))

stripHtml(v) ==
    IF v.kind # "string" \/ v.text = <<>> THEN v
    ELSE IF ~("<" \in Range(v.text)) \/ ~(">" \in Range(v.text)) THEN v
    ELSE [kind |-> "string", text |-> Trim(ReplaceTags(v.text))]

(***************************************************************************)
(* ProviderClient._cacheKey (static/js/stagvault.js).  A params object is  *)
(* the sequence of its entries in insertion order; a string is the         *)
(* sequence of its pieces, so that two keys are equal exactly when their   *)
(* texts are.                                                              *)
(***************************************************************************)
\* the parameter names of a search, in the order of localeCompare
ParamNames == <<"page", "q">>

NullValue == [kind |-> "null", text |-> <<>>]
StringValue(text) == [kind |-> "string", text |-> text]
NumberValue(text) == [kind |-> "number", text |-> text]
ParamValues ==
    {NullValue, NumberValue(<<"1">>), StringValue(<<"1">>), StringValue(<<"2">>),
     StringValue(<<"1", "&", "q", "=", "2">>)}

ParamEntry(name, value) == [name |-> name, value |-> value]

\* the objects a caller can pass: no name twice, any insertion order
ParamObjects ==
    {<<>>}
    \cup {<<ParamEntry(n, v)>> : n \in Range(ParamNames), v \in ParamValues}
    \cup {<<ParamEntry(ns[1], vs[1]), ParamEntry(ns[2], vs[2])>> :
             ns \in {<<"page", "q">>, <<"q", "page">>},
             vs \in ParamValues \X ParamValues}

\* a.localeCompare(b) < 0
LocaleBefore(a, b) == IndexOf(ParamNames, a) < IndexOf(ParamNames, b)

\* .sort(([a], [b]) => a.localeCompare(b)): a stable sort by name
RECURSIVE InsertEntry(_, _)
InsertEntry(sorted, e) ==
    IF sorted = <<>> THEN <<e>>
    ELSE IF LocaleBefore(e.name, Head(sorted).name) THEN <<e>> \o sorted
    ELSE <<Head(sorted)>> \o InsertEntry(Tail(sorted), e)

RECURSIVE SortEntries(_)
SortEntries(entries) ==
    IF entries = <<>> THEN <<>>
    ELSE InsertEntry(SortEntries(SubSeq(entries, 1, Len(entries) - 1)),
                     entries[Len(entries)])

\* .join('&')
RECURSIVE JoinAmp(_)
JoinAmp(parts) ==
    IF parts = <<>> THEN <<>>
    ELSE IF Len(parts) = 1 THEN parts[1]
    ELSE parts[1] \o <<"&">> \o JoinAmp(Tail(parts))

_cacheKey(provider, method, params) ==
    LET present == SelectSeq(params, LAMBDA e : e.value.kind # "null")
        sorted == SortEntries(present)
        parts == [i \in 1..Len(sorted) |->
                     <<sorted[i].name, "=">> \o sorted[i].value.text]
    IN  <<provider, ":", method, ":">> \o JoinAmp(parts)

\* the (name, value) pairs of a params object whose value is not null
Pairs(params) ==
    {<<params[i].name, params[i].value>> :
        i \in {j \in 1..Len(params) : params[j].value.kind # "null"}}

NoProbe == [pc |-> "idle", params1 |-> <<>>, params2 |-> <<>>, key1 |-> <<>>, key2 |-> <<>>]

(***************************************************************************)
(* RateLimitTracker and ProviderClient._directRequest                      *)
(* (static/js/stagvault.js).                                               *)
(***************************************************************************)
\* the providers of PROVIDER_CONFIGS; options.apiKeys holds a key for pixabay
DirectProviders == {"pixabay", "pexels"}
apiKeys == [p \in DirectProviders |-> IF p = "pixabay" THEN "key" ELSE "null"]

NoInfo == [kind |-> "none", limit |-> 0, remaining |-> 0, reset_seconds |-> 0, updatedAt |-> 0]
NoLimits == [p \in DirectProviders |-> NoInfo]

\* a response header: present with a decimal number, or absent
Absent == [present |-> FALSE, value |-> 0]
Header(n) == [present |-> TRUE, value |-> n]
LimitHeaders == {Absent, Header(50), Header(1000)}
RemainingHeaders == {Absent, Header(0), Header(1), Header(5)}
ResetHeaders == {Absent, Header(1), Header(2147484)}
Statuses == {200, 429, 500}

DefaultLimit == 100         \* headers.get('X-RateLimit-Limit') || '100'
DefaultRemaining == 100     \* headers.get('X-RateLimit-Remaining') || '100'
DefaultReset == 60          \* headers.get('X-RateLimit-Reset') || '60'

\* parseInt(response.headers.get(name) || fallback)
HeaderInt(header, fallback) == IF header.present THEN header.value ELSE fallback

\* a tracker that ignores what it is told
updateNothing(lim, provider, info, t) == lim
\* RateLimitTracker.update(provider, info)
update(lim, provider, info, t) ==
    [lim EXCEPT ![provider] =
        [kind |-> "info", limit |-> info.limit, remaining |-> info.remaining,
         reset_seconds |-> info.reset_seconds, updatedAt |-> t]]

\* RateLimitTracker.shouldWait(provider)
shouldWait(lim, provider) ==
    IF lim[provider].kind = "none" THEN FALSE ELSE lim[provider].remaining <= 1

\* a wait that is not clamped at zero
waitTimeUnclamped(lim, provider, t) ==
    IF lim[provider].kind = "none" \/ ~shouldWait(lim, provider) THEN 0
    ELSE lim[provider].reset_seconds - (t - lim[provider].updatedAt)
\* RateLimitTracker.waitTime(provider), in seconds:
\* Math.max(0, reset_seconds - (now - updatedAt) / 1000), which the code
\* returns times 1000
waitTime(lim, provider, t) ==
    IF lim[provider].kind = "none" \/ ~shouldWait(lim, provider) THEN 0
    ELSE Max(0, lim[provider].reset_seconds - (t - lim[provider].updatedAt))

\* the delay of setTimeout is a signed 32 bit number of milliseconds: the
\* longest delay it can hold is 2^31 - 1 ms, 2147483 whole seconds
MaxTimerDelay == 2147483

\* setTimeout(resolve, wait): resolve runs once the wait has passed. A wait
\* beyond MaxTimerDelay does not fit the timer: the delay wraps around (and a
\* negative one counts as 0) or is replaced by 1 ms, as the runtime has it,
\* so that the timer may run at any time from its start on
TimerDue(started, wait, t) ==
    IF wait > MaxTimerDelay THEN t >= started ELSE t >= started + wait

IdleDirect ==
    [pc |-> "idle", provider |-> "pixabay", started |-> 0, wait |-> 0, sent |-> 0,
     status |-> 0,
     headers |-> <<Absent, Absent, Absent>>, error |-> "none"]

(***************************************************************************)
(* The cache as a state machine: one action per public method.             *)
(***************************************************************************)
NoRet == [op |-> "none", key |-> <<"multi", 1>>, value |-> "null", threw |-> FALSE]

InitCache ==
    /\ storage \in {EmptyStorage, WarmStorage}
    /\ now = 1
    /\ ret = NoRet
    /\ ops = 0
    /\ client = IdleClient
    /\ limits = NoLimits
    /\ direct = IdleDirect
    /\ seconds = 0
    /\ keyProbe = NoProbe
    /\ probe = NoCall
    /\ AppInit("none")

\* one more call fits the run; the cache's calls leave the page alone, and
\* those made from outside the client leave its search alone
Call == ops < MaxOps /\ ops' = ops + 1 /\ UNCHANGED <<appVars, directVars>>
Step == Call /\ UNCHANGED client

Get(key, pat) ==
    LET r == get(storage, key, now, pat)
    IN /\ Step
       /\ storage' = r.st
       /\ ret' = [op |-> "get", key |-> key, value |-> r.value, threw |-> r.threw]
       /\ UNCHANGED now

Set(key, value, ttl, pat) ==
    LET r == set(storage, key, value, ttl, now, pat)
    IN /\ Step
       /\ storage' = r.st
       /\ ret' = [op |-> "set", key |-> key, value |-> value, threw |-> r.threw]
       /\ UNCHANGED now

Delete(key, pat) ==
    LET r == delete(storage, key, 0, pat)
    IN /\ Step
       /\ storage' = r.st
       /\ ret' = [op |-> "delete", key |-> key, value |-> "null", threw |-> r.threw]
       /\ UNCHANGED now

Tick ==
    /\ Step
    /\ now < MaxTime
    /\ now' = now + 1
    /\ UNCHANGED <<storage, ret>>

Clear(providerPrefix, pat) ==
    LET r == clear(storage, providerPrefix, pat)
    IN /\ Step
       /\ storage' = r.st
       /\ ret' = [op |-> "clear", key |-> <<providerPrefix, 1>>, value |-> "null",
                  threw |-> r.threw]
       /\ UNCHANGED now

Stats ==
    /\ Step
    /\ ret' = [op |-> "stats", key |-> <<"count", StatsCount(storage)>>, value |-> "null",
               threw |-> FALSE]
    /\ UNCHANGED <<storage, now>>

\* the store is shared with the rest of the origin: an item of the cache is
\* replaced by text that JSON.parse rejects
GarbleEntry(key) ==
    /\ Step
    /\ storage' = [storage EXCEPT !.items[key] = CorruptEntry]
    /\ UNCHANGED <<now, ret>>

GarbleIndex ==
    /\ Step
    /\ storage' = [storage EXCEPT !.index = CorruptIndex]
    /\ UNCHANGED <<now, ret>>

\* the calls of the cache's users over a store that treats the writes of a
\* call in one of the ways pats
CacheCalls(pats) ==
    \/ \E key \in CacheKeys, pat \in pats : Get(key, pat)
    \/ \E key \in CacheKeys, value \in Values, ttl \in TTLs, pat \in pats :
           Set(key, value, ttl, pat)
    \/ \E key \in CacheKeys, pat \in pats : Delete(key, pat)
    \/ \E p \in CacheProviders \cup {"multi", "null"}, pat \in pats : Clear(p, pat)
    \/ Stats
    \/ Tick

\* a store that may reject writes
NextCache == CacheCalls(WritePatterns)
SpecCache == InitCache /\ [][NextCache]_vars

\* a store with room: no write is ever rejected
NextHealthy == CacheCalls({AllOk})
SpecHealthy == InitCache /\ [][NextHealthy]_vars

\* a store that has room or is full for good, and that other code may garble
NextDegraded ==
    \/ CacheCalls({AllOk, FailAlways})
    \/ \E key \in CacheKeys : GarbleEntry(key)
    \/ GarbleIndex
SpecDegraded == InitCache /\ [][NextDegraded]_vars

(***************************************************************************)
(* The client's searchImages over the cache, as a state machine.           *)
(***************************************************************************)
\* searchImages after Promise.allSettled: build the result, cache it, return it
Settled(st, status, pat) ==
    LET result == ResultJson(status)
        r == set(st, MultiKey, result, DefaultTTL, now, pat)
    IN  /\ storage' = r.st
        /\ client' = IF r.threw
                      THEN [pc |-> "rejected", status |-> status, result |-> "null",
                            cached |-> FALSE]
                      ELSE [pc |-> "resolved", status |-> status, result |-> result,
                            cached |-> FALSE]

\* searchImages(query) up to its await
searchImages(pat) ==
    /\ Call
    /\ client.pc # "waiting"
    /\ LET r == get(storage, MultiKey, now, pat)
       IN  IF r.value # "null"
           THEN /\ storage' = r.st
                /\ client' = [pc |-> "resolved", status |-> NoStatus, result |-> r.value,
                              cached |-> TRUE]
           ELSE LET f == ProviderLookups(ClientProviders, r.st, NoStatus, now, pat)
                IN  IF \A p \in CacheProviders : f.status[p] # "pending"
                    THEN Settled(f.st, f.status, pat)
                    ELSE /\ storage' = f.st
                         /\ client' = [pc |-> "waiting", status |-> f.status,
                                       result |-> "null", cached |-> FALSE]
    /\ UNCHANGED <<now, ret>>

\* the request of _searchProviderImages(p) is answered, or fails
ProviderSettles(p, ok, pat) ==
    /\ client.pc = "waiting"
    /\ client.status[p] = "pending"
    /\ LET status == [client.status EXCEPT ![p] = IF ok THEN "fulfilled" ELSE "rejected"]
       IN  IF \E q \in CacheProviders : status[q] = "pending"
           THEN /\ client' = [client EXCEPT !.status = status]
                /\ UNCHANGED storage
           ELSE Settled(storage, status, pat)
    /\ UNCHANGED <<now, ret, ops, appVars, directVars>>

NextClient ==
    \/ \E pat \in {AllOk, FailAlways} : searchImages(pat)
    \/ \E p \in CacheProviders, ok \in BOOLEAN, pat \in {AllOk, FailAlways} :
          ProviderSettles(p, ok, pat)
    \/ \E providerPrefix \in CacheProviders \cup {"null"} : Clear(providerPrefix, AllOk)
    \/ Tick

SpecClient == InitCache /\ [][NextClient]_vars

(***************************************************************************)
(* One _directRequest at a time against the tracker, as a state machine.   *)
(***************************************************************************)
InitDirect ==
    /\ storage = EmptyStorage
    /\ now = 1
    /\ ret = NoRet
    /\ ops = 0
    /\ client = IdleClient
    /\ limits = NoLimits
    /\ direct = IdleDirect
    /\ seconds = 0
    /\ keyProbe = NoProbe
    /\ probe = NoCall
    /\ AppInit("none")

\* _directRequest(provider, endpoint, params) up to its first await
_directRequest(provider) ==
    /\ ~(direct.pc \in {"waiting", "fetching"})
    /\ LET call == [IdleDirect EXCEPT !.provider = provider]
           wait == waitTime(limits, provider, seconds)
       IN  direct' =
               IF apiKeys[provider] = "null"
               THEN [call EXCEPT !.pc = "threw", !.error = "No API key"]
               ELSE IF shouldWait(limits, provider) /\ wait > 0
               THEN [call EXCEPT !.pc = "waiting", !.started = seconds, !.wait = wait]
               ELSE [call EXCEPT !.pc = "fetching", !.sent = 1]
    /\ UNCHANGED <<storage, ret, ops, client, limits, seconds, keyProbe, probe, now, appVars>>

\* the timer of the rate limit wait runs out: fetch(url, { headers })
WaitOver ==
    /\ direct.pc = "waiting"
    /\ TimerDue(direct.started, direct.wait, seconds)
    /\ direct' = [direct EXCEPT !.pc = "fetching", !.sent = @ + 1]
    /\ UNCHANGED <<storage, ret, ops, client, limits, seconds, keyProbe, probe, now, appVars>>

\* the provider answers: the tracker is updated from the headers, then the
\* status decides between a thrown error and the parsed body
Response(status, limit, remaining, reset) ==
    /\ direct.pc = "fetching"
    /\ limits' = update(limits, direct.provider,
                        [limit |-> HeaderInt(limit, DefaultLimit),
                         remaining |-> HeaderInt(remaining, DefaultRemaining),
                         reset_seconds |-> HeaderInt(reset, DefaultReset)],
                        seconds)
    /\ direct' = [direct EXCEPT
                    !.status = status,
                    !.headers = <<limit, remaining, reset>>,
                    !.pc = IF status = 200 THEN "returned" ELSE "threw",
                    !.error = IF status = 429 THEN "Rate limit exceeded"
                              ELSE IF status # 200 THEN "Request failed"
                              ELSE "none"]
    /\ UNCHANGED <<storage, ret, ops, client, seconds, keyProbe, probe, now, appVars>>

\* fetch rejects: no response, no headers
NetworkError ==
    /\ direct.pc = "fetching"
    /\ direct' = [direct EXCEPT !.pc = "threw", !.error = "network"]
    /\ UNCHANGED <<storage, ret, ops, client, limits, seconds, keyProbe, probe, now, appVars>>

\* time passes
Advance ==
    /\ seconds < MaxSeconds
    /\ seconds' = seconds + 1
    /\ UNCHANGED <<storage, ret, ops, client, limits, direct, keyProbe, probe, now, appVars>>

NextDirect ==
    \/ \E provider \in DirectProviders : _directRequest(provider)
    \/ WaitOver
    \/ \E status \in Statuses, limit \in LimitHeaders, remaining \in RemainingHeaders,
          reset \in ResetHeaders : Response(status, limit, remaining, reset)
    \/ NetworkError
    \/ Advance

SpecDirect == InitDirect /\ [][NextDirect]_vars

(***************************************************************************)
(* The search coordinator: its flows and events.                           *)
(***************************************************************************)
Init ==
    /\ storage = EmptyStorage
    /\ now = 1
    /\ ret = NoRet
    /\ ops = 0
    /\ client = IdleClient
    /\ limits = NoLimits
    /\ direct = IdleDirect
    /\ seconds = 0
    /\ keyProbe = NoProbe
    /\ probe = NoCall
    /\ \E stored \in StoredSettings : AppInit(stored)

\* the tail of loadAndDisplaySamples: deduplicate, shuffle, show
ShowSamples(t, tk, samples, exSources, exLicenses) ==
    \E shuffled \in Shuffles(Unique(samples)) :
        LET displayItems == Take(shuffled, SamplesShown)
        IN  /\ tasks' = [tk EXCEPT ![t].pc = "sampled", ![t].pos = 0, ![t].samples = <<>>]
            /\ display' = IF Len(displayItems) > 0
                          THEN displayResults(displayItems, <<>>, FALSE, t, apiProviders,
                                              exSources, exLicenses)
                          ELSE showEmptyState(display, t)

\* loadAndDisplaySamples of flow t, resumed at entry pos with the shards in cache
loadAndDisplaySamples(t, tk, pos, samples, cache, exSources, exLicenses) ==
    LET r == SampleLoop(pos, samples, cache, exSources, exLicenses)
    IN  /\ prefixCache' = cache
        /\ IF r.await > 0
           THEN /\ tasks' = [tk EXCEPT ![t].pc = "sample", ![t].pos = r.await,
                                       ![t].samples = r.samples]
                /\ display' = display
           ELSE ShowSamples(t, tk, r.samples, exSources, exLicenses)

\* a merge that keeps the provider results only
mergeApiOnly(staticResults, filteredApiResults) == filteredApiResults
\* [...staticResults, ...filteredApiResults]
mergeResults(staticResults, filteredApiResults) == staticResults \o filteredApiResults

\* performSearch from "Merge and re-rank" on, after searchApiProviders resolved
Merge(g, tk) ==
    IF g # currentSearchId
    THEN /\ tasks' = [tk EXCEPT ![g].pc = "stale"]
         /\ UNCHANGED <<display, currentResults>>
    ELSE LET query == tk[g].query
             apiResults == Flat(ProviderOrder, tk[g].got)
             filteredApiResults == applyFilters(apiResults, excludedSources, excludedLicenses)
             mergedResults == mergeResults(tk[g].staticResults, filteredApiResults)
             rankedResults == rankResults(mergedResults, query)
         IN  /\ tasks' = [tk EXCEPT ![g].pc = "merged"]
             /\ currentResults' = rankedResults
             /\ display' = displayResults(rankedResults, query, FALSE, g, apiProviders,
                                          excludedSources, excludedLicenses)

\* a search that never asks the providers
schedulesNoApiSearch(enabledProviders) == FALSE
\* if (enabledProviders.length > 0): the 800 ms timer is set
schedulesApiSearch(enabledProviders) == Len(enabledProviders) > 0

\* performSearch after searchStaticIndex resolved with the shard's items
LocalDone(g, tk, items, current, timer, exSources, exLicenses) ==
    IF g # current
    THEN /\ tasks' = [tk EXCEPT ![g].pc = "stale"]
         /\ apiSearchDebounceTimer' = timer
         /\ UNCHANGED <<display, currentResults>>
    ELSE LET query == tk[g].query
             staticResults == StaticResults(items, query, exSources, exLicenses)
             results == rankResults(staticResults, query)
             enabledProviders == getEnabledProviders(apiProviders)
         IN  /\ currentResults' = results
             /\ display' = displayResults(results, query, TRUE, g, apiProviders,
                                          exSources, exLicenses)
             /\ IF schedulesApiSearch(enabledProviders)
                THEN /\ apiSearchDebounceTimer' = g
                     /\ tasks' = [tk EXCEPT ![g].pc = "timer",
                                            ![g].staticResults = staticResults]
                ELSE /\ apiSearchDebounceTimer' = timer
                     /\ tasks' = [tk EXCEPT ![g].pc = "local",
                                            ![g].staticResults = staticResults]

\* a threshold that lets one character through
TooShortEmpty(query) == Len(query) < 1
\* if (query.length < 2)
TooShort(query) == Len(query) < MinQueryLength

\* a performSearch that leaves the pending timer alone
keepTimeout(tk, h) == tk
\* clearTimeout(this.apiSearchDebounceTimer): the timer h, if it is still
\* pending, will not fire
clearTimeout(tk, h) ==
    IF h # 0 /\ tk[h].pc = "timer"
    THEN [tk EXCEPT ![h].pc = "cancelled", ![h].waited = 0] ELSE tk

\* a counter that stands still while an earlier search awaits its fetches
heldSearchId(id, tk) ==
    IF \E h \in 1..MaxSearches : tk[h].pc \in {"shard", "sample", "timer", "api"} THEN id
    ELSE id + 1
\* this.currentSearchId++ and ++this.currentSearchId, whatever the flows tk do
nextSearchId(id, tk) == id + 1

performSearch(exSources, exLicenses) ==
    LET query == ToLowerCase(Trim(searchInput))
        g == nextSearchId(currentSearchId, tasks)
        h == apiSearchDebounceTimer
        cleared == clearTimeout(tasks, h)
        started == [cleared EXCEPT ![g].query = query]
        prefix == Substring(query, 2)
    IN  /\ currentSearchId < MaxSearches
        /\ currentSearchId' = g
        /\ UNCHANGED <<apiCache, cacheSaveTimer, savedApiCache>>
        /\ IF TooShort(query)
           THEN /\ apiSearchDebounceTimer' = 0
                /\ loadAndDisplaySamples(g, started, 1, <<>>, prefixCache, exSources,
                                         exLicenses)
                /\ UNCHANGED currentResults
           ELSE IF prefix \in Range(prefixManifest) /\ ~(prefix \in prefixCache)
           THEN /\ apiSearchDebounceTimer' = 0
                /\ tasks' = [started EXCEPT ![g].pc = "shard"]
                /\ display' = showLoading(display, g)
                /\ UNCHANGED <<currentResults, prefixCache>>
           ELSE /\ LocalDone(g, started,
                             IF prefix \in Range(prefixManifest) THEN Shard(prefix) ELSE <<>>,
                             g, 0, exSources, exLicenses)
                /\ UNCHANGED prefixCache

(***************************************************************************)
(* The events of the page.                                                 *)
(***************************************************************************)
\* the user edits the search box: the input handler restarts the 150 ms timer
Type(input) ==
    /\ input # searchInput
    /\ searchInput' = input
    /\ searchDebounceTimer' = TRUE
    /\ UNCHANGED <<cacheVars, now, sidebar, currentSearchId, apiSearchDebounceTimer, tasks, display,
                   currentResults, prefixCache, excludedSources, excludedLicenses,
                   apiProviders, apiCache, cacheSaveTimer, savedApiCache>>

\* the 150 ms timer fires
SearchTimerFires ==
    /\ searchDebounceTimer
    /\ searchDebounceTimer' = FALSE
    /\ performSearch(excludedSources, excludedLicenses)
    /\ UNCHANGED <<cacheVars, now, sidebar, searchInput, excludedSources, excludedLicenses,
                   apiProviders>>

\* the user toggles the checkbox of a source
handleSourceChange(id) ==
    LET checked == id \in excludedSources
        exSources == IF checked THEN excludedSources \ {id} ELSE excludedSources \cup {id}
    IN  /\ id \in SourceIds(apiProviders)
        /\ excludedSources' = exSources
        /\ sidebar' = updateParentCheckboxes([sidebar EXCEPT !.leaf[id] = checked],
                                             apiProviders)
        /\ performSearch(exSources, excludedLicenses)
        /\ UNCHANGED <<cacheVars, now, searchInput, searchDebounceTimer, excludedLicenses,
                       apiProviders>>

\* the user clicks the checkbox of a branch of the sources tree
BranchChange(branchName) ==
    LET checked == ~sidebar.branch[branchName].checked
        sourceIds == IF DataSources(branchName, apiProviders) # <<>>
                     THEN DataSources(branchName, apiProviders)
                     ELSE findSourcesInTree(branchName)
        exSources == IF checked THEN excludedSources \ Range(sourceIds)
                     ELSE excludedSources \cup Range(sourceIds)
        items == BranchItems(branchName, apiProviders)
        nested == NestedBranches(branchName)
        clicked ==
            [leaf |-> [id \in AllSourceIds |->
                          IF id \in items THEN checked ELSE sidebar.leaf[id]],
             branch |-> [b \in AllBranches |->
                            IF b = branchName \/ b \in nested THEN Box(checked, FALSE)
                            ELSE sidebar.branch[b]]]
    IN  /\ branchName \in Branches(apiProviders)
        /\ excludedSources' = exSources
        /\ sidebar' = updateParentCheckboxes(clicked, apiProviders)
        /\ performSearch(exSources, excludedLicenses)
        /\ UNCHANGED <<cacheVars, now, searchInput, searchDebounceTimer, excludedLicenses,
                       apiProviders>>

\* the user toggles the checkbox of a license: handleFilterChange('license', ...)
handleFilterChange(id) ==
    LET checked == id \in excludedLicenses
        exLicenses == IF checked THEN excludedLicenses \ {id} ELSE excludedLicenses \cup {id}
    IN  /\ excludedLicenses' = exLicenses
        /\ performSearch(excludedSources, exLicenses)
        /\ UNCHANGED <<cacheVars, now, sidebar, searchInput, searchDebounceTimer,
                       excludedSources, apiProviders>>

\* the "clear all" button
clearAllFilters ==
    /\ excludedSources' = {}
    /\ excludedLicenses' = {}
    /\ sidebar' = [leaf |-> [id \in AllSourceIds |-> TRUE],
                   branch |-> [b \in AllBranches |-> Box(TRUE, FALSE)]]
    /\ probe' = [pc |-> "cleared", searchId |-> currentSearchId + 1]
    /\ performSearch({}, {})
    /\ UNCHANGED <<storage, ret, ops, client, limits, direct, seconds, keyProbe, now,
                   searchInput, searchDebounceTimer, apiProviders>>

\* applyFilters(items) with the exclusions of the moment
Filter(items) ==
    /\ probe' = [pc |-> "filtered", items |-> items, exSources |-> excludedSources,
                 exLicenses |-> excludedLicenses,
                 result |-> applyFilters(items, excludedSources, excludedLicenses)]
    /\ probe' # probe
    /\ UNCHANGED <<storage, ret, ops, client, limits, direct, seconds, keyProbe, now, appVars>>

\* the fetch of a shard settles for the search of generation g
ShardFetchDone(g, ok) ==
    /\ tasks[g].pc = "shard"
    /\ IF ok
       THEN /\ prefixCache' = prefixCache \cup {Substring(tasks[g].query, 2)}
            /\ LocalDone(g, tasks, Shard(Substring(tasks[g].query, 2)), currentSearchId,
                         apiSearchDebounceTimer, excludedSources, excludedLicenses)
       ELSE /\ tasks' = [tasks EXCEPT ![g].pc = "failed"]
            /\ display' = IF g = currentSearchId THEN showError(display, g) ELSE display
            /\ UNCHANGED <<prefixCache, currentResults, apiSearchDebounceTimer>>
    /\ UNCHANGED <<cacheVars, now, sidebar, searchInput, searchDebounceTimer, currentSearchId,
                   excludedSources, excludedLicenses, apiProviders, apiCache,
                   cacheSaveTimer, savedApiCache>>

\* the fetch of a shard settles for the sample load of flow t
SampleFetchDone(t, ok) ==
    /\ tasks[t].pc = "sample"
    /\ IF ok
       THEN loadAndDisplaySamples(t, tasks, tasks[t].pos, tasks[t].samples,
                prefixCache \cup {Take(prefixManifest, SamplePrefixes)[tasks[t].pos]},
                excludedSources, excludedLicenses)
       ELSE /\ tasks' = [tasks EXCEPT ![t].pc = "failed", ![t].pos = 0, ![t].samples = <<>>]
            /\ display' = showEmptyState(display, t)
            /\ UNCHANGED prefixCache
    /\ UNCHANGED <<cacheVars, now, sidebar, searchInput, searchDebounceTimer, currentSearchId,
                   apiSearchDebounceTimer, currentResults, excludedSources,
                   excludedLicenses, apiProviders, apiCache, cacheSaveTimer, savedApiCache>>

\* time passes while the 800 ms timer of a search is pending
Elapse ==
    /\ \E g \in 1..MaxSearches : tasks[g].pc = "timer" /\ tasks[g].waited < ApiDebounce
    /\ tasks' = [g \in 0..MaxSearches |->
                    IF tasks[g].pc = "timer"
                    THEN [tasks[g] EXCEPT !.waited = Min(@ + ClockStep, ApiDebounce)]
                    ELSE tasks[g]]
    /\ UNCHANGED <<cacheVars, now, sidebar, searchInput, searchDebounceTimer, currentSearchId,
                   apiSearchDebounceTimer, display, currentResults, prefixCache,
                   excludedSources, excludedLicenses, apiProviders, apiCache,
                   cacheSaveTimer, savedApiCache>>

\* the 800 ms timer of generation g fires
ApiTimerFires(g) ==
    /\ tasks[g].pc = "timer"
    /\ Expired(tasks[g].waited)
    /\ IF g # currentSearchId
       THEN /\ tasks' = [tasks EXCEPT ![g].pc = "stale"]
            /\ UNCHANGED <<display, currentResults, apiCache>>
       ELSE LET fan == FanOut(getEnabledProviders(apiProviders), tasks[g].query,
                              apiProviders, apiCache, now)
                tk == [tasks EXCEPT ![g].pending = fan.pending, ![g].got = fan.got]
            IN  /\ apiCache' = fan.cache
                /\ IF Joined(fan.pending) THEN Merge(g, tk)
                   ELSE /\ tasks' = [tk EXCEPT ![g].pc = "api"]
                        /\ UNCHANGED <<display, currentResults>>
    /\ UNCHANGED <<cacheVars, now, sidebar, searchInput, searchDebounceTimer, currentSearchId,
                   apiSearchDebounceTimer, prefixCache, excludedSources, excludedLicenses,
                   apiProviders, cacheSaveTimer, savedApiCache>>

\* provider p answers the search of generation g, or its request fails
ProviderResponds(g, p, ok) ==
    /\ tasks[g].pc = "api"
    /\ p \in tasks[g].pending
    /\ LET results == IF ok THEN ApiItems(p, tasks[g].query) ELSE <<>>
           tk == [tasks EXCEPT ![g].pending = @ \ {p}, ![g].got[p] = results]
       IN  /\ IF ok
              THEN /\ apiCache' = setCachedApiResponse(apiCache, <<p, tasks[g].query>>,
                                                        results, now)
                   /\ cacheSaveTimer' = TRUE
              ELSE UNCHANGED <<apiCache, cacheSaveTimer>>
           /\ IF Joined(tk[g].pending) THEN Merge(g, tk)
              ELSE /\ tasks' = tk
                   /\ UNCHANGED <<display, currentResults>>
    /\ UNCHANGED <<cacheVars, now, sidebar, searchInput, searchDebounceTimer, currentSearchId,
                   apiSearchDebounceTimer, prefixCache, excludedSources, excludedLicenses,
                   apiProviders, savedApiCache>>

\* the 2 s timer of setCachedApiResponse fires: the live entries, the most
\* recent ApiCacheSaved of them, go to localStorage
saveApiCache ==
    /\ cacheSaveTimer
    /\ cacheSaveTimer' = FALSE
    /\ LET live == {u \in ApiUrls : apiCache[u].kind = "entry" /\ apiCache[u].expires > now}
           newer(u) == {v \in live : apiCache[v].timestamp > apiCache[u].timestamp}
       IN  savedApiCache' =
               [u \in ApiUrls |->
                   IF u \in live /\ Cardinality(newer(u)) < ApiCacheSaved
                   THEN apiCache[u] ELSE NoApiEntry]
    /\ UNCHANGED <<cacheVars, now, sidebar, searchInput, searchDebounceTimer, currentSearchId,
                   apiSearchDebounceTimer, tasks, display, currentResults, prefixCache,
                   excludedSources, excludedLicenses, apiProviders, apiCache>>

Next ==
    \/ \E input \in SearchInputs : Type(input)
    \/ SearchTimerFires
    \/ \E id \in FilterSources : handleSourceChange(id)
    \/ \E g \in 1..MaxSearches, ok \in BOOLEAN : ShardFetchDone(g, ok)
    \/ \E t \in 0..MaxSearches, ok \in BOOLEAN : SampleFetchDone(t, ok)
    \/ Elapse
    \/ \E g \in 1..MaxSearches : ApiTimerFires(g)
    \/ \E g \in 1..MaxSearches, p \in Providers, ok \in BOOLEAN : ProviderResponds(g, p, ok)
    \/ saveApiCache

Spec == Init /\ [][Next]_vars

\* a step of the browser for a search: time passes for its timer, the timer
\* fires, its shard fetch or one of its provider requests settles
Settle ==
    \/ Elapse
    \/ \E g \in 1..MaxSearches : ApiTimerFires(g)
    \/ \E g \in 1..MaxSearches, ok \in BOOLEAN : ShardFetchDone(g, ok)
    \/ \E g \in 1..MaxSearches, p \in Providers, ok \in BOOLEAN : ProviderResponds(g, p, ok)
\* such a step is due: the guards of the four actions of Settle
SettleDue ==
    \E g \in 1..MaxSearches :
        \/ tasks[g].pc = "timer" /\ (tasks[g].waited < ApiDebounce \/ Expired(tasks[g].waited))
        \/ tasks[g].pc = "shard"
        \/ tasks[g].pc = "api" /\ tasks[g].pending # {}
\* the browser does not stop while such a step is due (weak fairness of
\* Settle, with its enabling condition written out); the user is under no
\* obligation
Settling == []<>(~SettleDue) \/ []<><<Settle>>_vars
\* the page while the user starts at most LiveSearches searches
NextLive ==
    \/ \E input \in SearchInputs : Type(input)
    \/ currentSearchId < LiveSearches /\ SearchTimerFires
    \/ currentSearchId < LiveSearches /\ \E id \in FilterSources : handleSourceChange(id)
    \/ \E t \in 0..MaxSearches, ok \in BOOLEAN : SampleFetchDone(t, ok)
    \/ Settle
    \/ saveApiCache
SpecLive == Init /\ [][NextLive]_vars /\ Settling

(***************************************************************************)
(* The filters of the sidebar.                                             *)
(***************************************************************************)
\* the license checkboxes used, the items filtered, and how many at a time
FilterLicenses == {"MIT", "ISC"}
FilterItems ==
    {Item("lucide", <<"x">>, <<>>, "ISC", FALSE), Item("feather", <<"y">>, <<>>, "", FALSE),
     Item("unknown", <<"z">>, <<>>, "", FALSE), Item("pexels", <<"p">>, <<>>, "Pexels License", TRUE)}
FilterInputs == UNION {[1..n -> FilterItems] : n \in 0..MaxItems}

NextFilters ==
    \/ \E id \in AllSourceIds : handleSourceChange(id)
    \/ \E branchName \in AllBranches : BranchChange(branchName)
    \/ \E id \in FilterLicenses : handleFilterChange(id)
    \/ clearAllFilters
    \/ \E items \in FilterInputs : Filter(items)

SpecFilters == Init /\ [][NextFilters]_vars

(***************************************************************************)
(* Two calls of _cacheKey with the same provider and method.               *)
(***************************************************************************)
InitKey ==
    /\ storage = EmptyStorage
    /\ now = 1
    /\ ret = NoRet
    /\ ops = 0
    /\ client = IdleClient
    /\ limits = NoLimits
    /\ direct = IdleDirect
    /\ seconds = 0
    /\ \E p1 \in ParamObjects, p2 \in ParamObjects :
          keyProbe = [NoProbe EXCEPT !.params1 = p1, !.params2 = p2]
    /\ probe = NoCall
    /\ AppInit("none")

CacheKey(provider, method) ==
    /\ keyProbe.pc = "idle"
    /\ keyProbe' = [keyProbe EXCEPT !.pc = "keyed",
                                    !.key1 = _cacheKey(provider, method, keyProbe.params1),
                                    !.key2 = _cacheKey(provider, method, keyProbe.params2)]
    /\ UNCHANGED <<storage, ret, ops, client, limits, direct, seconds, probe, now, appVars>>

NextKey ==
    \E provider \in CacheProviders \cup {"multi"}, method \in {"searchImages", "getImage"} :
        CacheKey(provider, method)

SpecKey == InitKey /\ [][NextKey]_vars

(***************************************************************************)
(* rankResults and getMatchScore on two items.                             *)
(***************************************************************************)
InitScore ==
    /\ storage = EmptyStorage
    /\ now = 1
    /\ ret = NoRet
    /\ ops = 0
    /\ client = IdleClient
    /\ limits = NoLimits
    /\ direct = IdleDirect
    /\ seconds = 0
    /\ keyProbe = NoProbe
    /\ \E a \in ScoreItems, b \in ScoreItems, query \in ScoreQueries :
          probe = [pc |-> "idle", a |-> a, b |-> b, query |-> query,
                   scoreA |-> 0, scoreB |-> 0, ranked |-> <<>>]
    /\ AppInit("none")

\* rankResults([a, b], query)
Rank ==
    /\ probe.pc = "idle"
    /\ probe' = [probe EXCEPT !.pc = "ranked",
                              !.scoreA = getMatchScore(probe.a, probe.query),
                              !.scoreB = getMatchScore(probe.b, probe.query),
                              !.ranked = rankResults(<<probe.a, probe.b>>, probe.query)]
    /\ UNCHANGED <<storage, ret, ops, client, limits, direct, seconds, keyProbe, now, appVars>>

NextScore == Rank

SpecScore == InitScore /\ [][NextScore]_vars

(***************************************************************************)
(* Properties of the ranking.                                              *)
(***************************************************************************)
\* the value of the first rule that applies; a rule is <<applies, value>>
RECURSIVE FirstRule(_)
FirstRule(rules) ==
    IF rules = <<>> THEN 0
    ELSE IF Head(rules)[1] THEN Head(rules)[2] ELSE FirstRule(Tail(rules))

\* q stands in name as a word: between the start or a space and a space or the end
DelimitedWord(name, q) ==
    \E i \in 1..(Len(name) - Len(q) + 1) :
        /\ SubSeq(name, i, i + Len(q) - 1) = q
        /\ (i = 1 \/ name[i - 1] = " ")
        /\ (i + Len(q) - 1 = Len(name) \/ name[i + Len(q)] = " ")

\* q stands in name after ": ", or after a space at the end, or between spaces
MarkedInName(name, q) ==
    \/ Includes(name, <<":", " ">> \o q)
    \/ SeqEndsWith(name, <<" ">> \o q)
    \/ Includes(name, <<" ">> \o q \o <<" ">>)

TagRules(tags, q) ==
    << <<\E i \in 1..Len(tags) : tags[i] = q, 600>>,
       <<\E i \in 1..Len(tags) : SeqStartsWith(tags[i], q), 250>>,
       <<\E i \in 1..Len(tags) : Includes(tags[i], q), 50>> >>

\* the score the policy gives, with isWord deciding the 350 rule
PolicyScore(item, q, isWord) ==
    LET name == ToLowerCase(item.n)
        N == FirstRule(<< <<name = q, 1000>>, <<SeqStartsWith(name, q), 500>>,
                          <<isWord, 350>>, <<Includes(name, q), 100>> >>)
        T == FirstRule(TagRules(Lower(item.t), q))
    IN  N + T + (IF Len(name) < 30 THEN 30 - Len(name) ELSE 0)

C24_ExactTagOutranks ==
    ( /\ probe.pc = "ranked"
      /\ probe.query \in Range(Lower(probe.a.t))
      /\ ToLowerCase(probe.b.n) # probe.query
      /\ \A i \in 1..Len(probe.b.t) : ~Includes(ToLowerCase(probe.b.t[i]), probe.query) )
        => /\ probe.scoreA > probe.scoreB
           /\ probe.ranked = <<probe.a, probe.b>>

\* a long name with the tag "us" has outranked the name "user"
C24_Witness ==
    /\ probe.pc = "ranked"
    /\ probe.query = <<"u", "s">>
    /\ probe.a.t = << <<"u", "s">> >>
    /\ Len(probe.a.n) > 30
    /\ probe.b.n = <<"u", "s", "e", "r">>
    /\ probe.b.t = <<>>
    /\ probe.ranked[1] = probe.a

(***************************************************************************)
(* One call of stripHtml.                                                  *)
(***************************************************************************)
InitStrip ==
    /\ storage = EmptyStorage
    /\ now = 1
    /\ ret = NoRet
    /\ ops = 0
    /\ client = IdleClient
    /\ limits = NoLimits
    /\ direct = IdleDirect
    /\ seconds = 0
    /\ keyProbe = NoProbe
    /\ \E v \in StripInputs : probe = [pc |-> "idle", input |-> v, result |-> v]
    /\ AppInit("none")

Strip ==
    /\ probe.pc = "idle"
    /\ probe' = [probe EXCEPT !.pc = "stripped", !.result = stripHtml(probe.input)]
    /\ UNCHANGED <<storage, ret, ops, client, limits, direct, seconds, keyProbe, now, appVars>>

NextStrip == Strip

SpecStrip == InitStrip /\ [][NextStrip]_vars

\* C35: stripHtml returns unchanged every string without an HTML tag
\* (containsHtmlTags is false), whatever '<' and '>' it holds, and every
\* value that is not a string.
C35_PlainTextUnchanged ==
    (/\ probe.pc = "stripped"
     /\ (probe.input.kind = "string" => ~containsHtmlTags(probe.input.text)))
        => probe.result = probe.input

(***************************************************************************)
(* apiCache and its snapshot in localStorage (stagvault_api_cache).        *)
(* The Map is the list of its <<url, entry>> pairs in insertion order,     *)
(* which is the order Array.from(entries()) and a stable sort start from;  *)
(* the stored object is the list of its pairs in key order.                *)
(***************************************************************************)
\* the URLs that get a response in the run: the oldest one again, and the fresh ones
AnsweredUrls == {1} \cup ((CachedBefore + 1)..(CachedBefore + FreshUrls))

\* Map.prototype.set: a key that is present keeps its place
MapSet(m, url, entry) ==
    IF \E i \in 1..Len(m) : m[i][1] = url
    THEN [i \in 1..Len(m) |-> IF m[i][1] = url THEN <<url, entry>> ELSE m[i]]
    ELSE Append(m, <<url, entry>>)

\* sort((a, b) => b[1].timestamp - a[1].timestamp): stable, newest first.
\* The entries of the newest timestamp come first, in the order they had,
\* then those of the timestamp before it, and so on down to t = 0.
RECURSIVE NewestFirstFrom(_, _)
NewestFirstFrom(es, t) ==
    IF t < 0 THEN <<>>
    ELSE SelectSeq(es, LAMBDA e : e[2].timestamp = t) \o NewestFirstFrom(es, t - 1)
SortNewestFirst(es) ==
    LET stamps == {es[i][2].timestamp : i \in 1..Len(es)}
    IN IF es = <<>> THEN <<>>
       ELSE NewestFirstFrom(es, CHOOSE t \in stamps : \A u \in stamps : u <= t)

\* a snapshot of the first entries of the Map, whatever their age
firstEntries(m, t) ==
    Take(SelectSeq(m, LAMBDA e : e[2].expires > t), ApiCacheSaved)
\* saveApiCache: the entries that go into cacheObj
entries(m, t) ==
    Take(SortNewestFirst(SelectSeq(m, LAMBDA e : e[2].expires > t)), ApiCacheSaved)

\* loadApiCache: the stored pairs that are not expired, in the stored order
loadApiCache(stored, t) == SelectSeq(stored, LAMBDA e : e[2].expires > t)

\* the page has run for a while: the first half of the responses came at
\* time 0 and was saved then, the second half has just come and its save
\* is pending
InitSnapshot ==
    /\ storage = EmptyStorage
    /\ now = 1
    /\ ret = NoRet
    /\ ops = 0
    /\ client = IdleClient
    /\ limits = NoLimits
    /\ direct = IdleDirect
    /\ seconds = 0
    /\ keyProbe = NoProbe
    /\ searchInput = <<>>
    /\ searchDebounceTimer = FALSE
    /\ currentSearchId = 0
    /\ apiSearchDebounceTimer = 0
    /\ tasks = [g \in 0..MaxSearches |-> NoTask]
    /\ display = View("blank", 0, <<>>, "total", <<>>)
    /\ currentResults = <<>>
    /\ prefixCache = {}
    /\ excludedSources = {}
    /\ excludedLicenses = {}
    /\ sidebar = renderSourcesTree
    /\ apiProviders = loadApiKeys("none")
    /\ apiCache = [i \in 1..CachedBefore |->
                      <<i, ApiEntry(<<i>>, IF 2 * i <= CachedBefore THEN 0 ELSE 1)>>]
    /\ savedApiCache = [i \in 1..(CachedBefore \div 2) |-> <<i, ApiEntry(<<i>>, 0)>>]
    /\ cacheSaveTimer = TRUE
    /\ probe = [pc |-> "snapshot", timers |-> 1, saves |-> 0, written |-> TRUE,
                saved |-> "written"]

snapshotRest == <<storage, ret, ops, client, limits, direct, seconds, keyProbe,
                  searchInput, searchDebounceTimer, currentSearchId, apiSearchDebounceTimer,
                  tasks, display, currentResults, prefixCache, excludedSources,
                  excludedLicenses, sidebar, apiProviders>>

\* setCachedApiResponse(url, data): the entry, then clearTimeout of the save
\* timer held and a new timer of 2 s. probe.timers counts the save timers
\* that are pending in the browser.
CacheResponse(url) ==
    /\ apiCache' = MapSet(apiCache, url, ApiEntry(<<url>>, now))
    /\ cacheSaveTimer' = TRUE
    /\ probe' = [probe EXCEPT !.timers = (IF cacheSaveTimer THEN @ - 1 ELSE @) + 1,
                              !.saves = 0, !.written = TRUE]
    /\ UNCHANGED <<snapshotRest, now, savedApiCache>>

\* the save timer fires: saveApiCache writes the snapshot, or removes the
\* stored one when setItem throws
SaveTimerFires(ok) ==
    /\ probe.timers > 0
    /\ savedApiCache' = IF ok THEN entries(apiCache, now) ELSE <<>>
    /\ cacheSaveTimer' = (probe.timers > 1)
    /\ probe' = [probe EXCEPT !.timers = @ - 1, !.saves = @ + 1,
                              !.saved = IF ok THEN "written" ELSE "removed"]
    /\ UNCHANGED <<snapshotRest, now, apiCache>>

\* half a time to live passes; a pending save timer (2 s) has fired long before
Later ==
    /\ probe.timers = 0
    /\ now < MaxTime
    /\ now' = now + 1
    /\ UNCHANGED <<snapshotRest, apiCache, cacheSaveTimer, savedApiCache, probe>>

\* the page is loaded again: the constructor starts from an empty Map and
\* calls loadApiCache; the timers of the old page are gone
Reload ==
    /\ apiCache' = loadApiCache(savedApiCache, now)
    /\ cacheSaveTimer' = FALSE
    /\ probe' = [probe EXCEPT !.timers = 0, !.saves = 0, !.written = FALSE]
    /\ UNCHANGED <<snapshotRest, now, savedApiCache>>

NextSnapshot ==
    \/ \E url \in AnsweredUrls : CacheResponse(url)
    \/ \E ok \in BOOLEAN : SaveTimerFires(ok)
    \/ Later
    \/ Reload

SpecSnapshot == InitSnapshot /\ [][NextSnapshot]_vars

\* the pairs of a Map or of a stored object that are not expired at time t
UnexpiredPairs(m, t) == {e \in Range(m) : e[2].expires > t}

\* C38: a snapshot written by saveApiCache holds at most 100 entries, all
\* of them entries of apiCache that are unexpired when it is written, and no
\* unexpired entry left out is newer than one that is in; loadApiCache puts
\* into apiCache exactly the stored entries that are unexpired when it runs;
\* and since the last setCachedApiResponse one save is pending or has run,
\* never two.
C38_SnapshotAndRestore ==
    /\ [](probe.written => probe.timers + probe.saves = 1)
    /\ [][ (SaveTimerFires(TRUE)
              => /\ Len(savedApiCache') =
                        Min(ApiCacheSaved, Cardinality(UnexpiredPairs(apiCache, now)))
                 /\ Cardinality(Range(savedApiCache')) = Len(savedApiCache')
                 /\ Range(savedApiCache') \subseteq UnexpiredPairs(apiCache, now)
                 /\ \A e \in Range(savedApiCache') :
                      \A f \in UnexpiredPairs(apiCache, now) \ Range(savedApiCache') :
                          f[2].timestamp <= e[2].timestamp)
           /\ (Reload
              => /\ Range(apiCache') = UnexpiredPairs(savedApiCache, now)
                 /\ Cardinality(Range(apiCache')) = Len(apiCache')) ]_vars
\* a snapshot of 100 entries was written while more than 100 entries of
\* apiCache were unexpired, one of them written again after the others
C38_Witness ==
    /\ probe.pc = "snapshot"
    /\ probe.saved = "written"
    /\ probe.saves = 1
    /\ Len(savedApiCache) = ApiCacheSaved
    /\ Cardinality(UnexpiredPairs(apiCache, now)) > ApiCacheSaved
    /\ savedApiCache[1][1] = 1

(***************************************************************************)
(* The settings dialog: the API keys and the provider switches change      *)
(* while a search runs. probe holds what the handlers keep besides         *)
(* apiProviders: the localStorage items written by saveApiKeys, and the    *)
(* providers that addApiSourcesToTree has pushed into this.sources.        *)
(***************************************************************************)
\* the providers whose settings are changed, and the texts typed as a key
KeyProviders == {"pexels", "wikimedia"}
KeyInputs == {<<>>, <<" ">>, <<" ", "k">>}
\* trimmedValue || null; the model tells no two keys apart
KeyOf(trimmed) == IF trimmed = <<>> THEN "null" ELSE "key"

\* the texts pasted into the bulk field: whether text.trim().length >= 10, and
\* the <<envKey, value>> pairs of the lines that match KEY=value
BulkTexts ==
    { [long |-> FALSE, lines |-> << <<"PEXELS_KEY", "k">> >>],
      [long |-> TRUE, lines |-> << <<"PEXELS_API_KEY", "k">> >>],
      [long |-> TRUE, lines |-> << <<"FLICKR_KEY", "k">>, <<"PIXABAY_KEY", " ">> >>],
      [long |-> TRUE, lines |-> <<>>] }
keyMap(envKey) ==
    CASE envKey \in {"PEXELS_API_KEY", "PEXELS_KEY"} -> "pexels"
      [] envKey \in {"PIXABAY_API_KEY", "PIXABAY_KEY"} -> "pixabay"
      [] envKey \in {"UNSPLASH_API_KEY", "UNSPLASH_ACCESS_KEY", "UNSPLASH_KEY"} -> "unsplash"
      [] OTHER -> "undefined"

\* the loop of parseBulkApiKeys over the lines
RECURSIVE BulkLoop(_, _)
BulkLoop(lines, providers) ==
    IF lines = <<>> THEN providers
    ELSE LET provider == keyMap(Head(lines)[1])
         IN BulkLoop(Tail(lines),
                     IF provider # "undefined"
                     THEN [providers EXCEPT ![provider].apiKey = "key",
                                            ![provider].enabled = TRUE]
                     ELSE providers)

\* saveApiKeys: stagvault_api_keys and stagvault_wikimedia_enabled
saveApiKeys(providers) ==
    [keys |-> [p \in Providers \ {"wikimedia"} |-> providers[p]],
     wikimedia |-> IF providers["wikimedia"].enabled THEN "true" ELSE "false"]
\* the items as loadApiKeys found them
StoredItems(stored) ==
    [keys |-> [p \in Providers \ {"wikimedia"} |->
                  IF stored = "keys" THEN loadApiKeys(stored)[p]
                  ELSE [enabled |-> FALSE, apiKey |-> "absent"]],
     wikimedia |-> IF stored = "off" THEN "false" ELSE "absent"]

\* addApiSourcesToTree: the usable providers join this.sources, none leaves
addApiSourcesToTree(added, providers) == added \cup Range(getEnabledProviders(providers))

InitKeys ==
    /\ storage = EmptyStorage
    /\ now = 1
    /\ ret = NoRet
    /\ ops = 0
    /\ client = IdleClient
    /\ limits = NoLimits
    /\ direct = IdleDirect
    /\ seconds = 0
    /\ keyProbe = NoProbe
    /\ \E stored \in StoredSettings :
          /\ AppInit(stored)
          /\ probe = [pc |-> "keys", stored |-> StoredItems(stored),
                      sources |-> addApiSourcesToTree({}, loadApiKeys(stored))]

keysRest == <<storage, ret, ops, client, limits, direct, seconds, keyProbe, now,
              searchInput, searchDebounceTimer, currentSearchId, apiSearchDebounceTimer,
              tasks, display, currentResults, prefixCache, excludedSources,
              excludedLicenses, apiCache, cacheSaveTimer, savedApiCache>>

\* the tail of saveApiKey and of toggleProvider: save, then refresh the sidebar
SettingsChanged(providers) ==
    /\ apiProviders' = providers
    /\ probe' = [probe EXCEPT !.stored = saveApiKeys(providers),
                              !.sources = addApiSourcesToTree(@, providers)]
    /\ sidebar' = renderSourcesTree
    /\ UNCHANGED keysRest

saveApiKey(provider, value) ==
    LET trimmedValue == Trim(value)
    IN SettingsChanged([apiProviders EXCEPT
                            ![provider].apiKey = KeyOf(trimmedValue),
                            ![provider].enabled = IF trimmedValue # <<>> THEN TRUE ELSE @])

toggleProvider(provider, enabled) ==
    SettingsChanged([apiProviders EXCEPT ![provider].enabled = enabled])

clearAllApiKeys ==
    /\ apiProviders' = [p \in Providers |->
                            IF p # "wikimedia" THEN [enabled |-> FALSE, apiKey |-> "null"]
                            ELSE apiProviders[p]]
    /\ probe' = [probe EXCEPT !.stored.keys =
                     [p \in Providers \ {"wikimedia"} |->
                         [enabled |-> FALSE, apiKey |-> "absent"]]]
    /\ UNCHANGED <<keysRest, sidebar>>

parseBulkApiKeys(text) ==
    LET providers == IF text.long THEN BulkLoop(text.lines, apiProviders) ELSE apiProviders
        foundAny == text.long /\ \E i \in 1..Len(text.lines) :
                                    keyMap(text.lines[i][1]) # "undefined"
    IN  /\ apiProviders' = providers
        /\ probe' = IF foundAny THEN [probe EXCEPT !.stored = saveApiKeys(providers)]
                    ELSE probe
        /\ UNCHANGED <<keysRest, sidebar>>

NextKeys ==
    \/ \E input \in SearchInputs : Type(input)
    \/ currentSearchId < KeySearches /\ SearchTimerFires
    \/ \E g \in 1..MaxSearches, ok \in BOOLEAN : ShardFetchDone(g, ok)
    \/ Elapse
    \/ \E g \in 1..MaxSearches : ApiTimerFires(g)
    \/ \E g \in 1..MaxSearches, p \in Providers, ok \in BOOLEAN : ProviderResponds(g, p, ok)
    \/ saveApiCache
    \/ \E provider \in KeyProviders, value \in KeyInputs : saveApiKey(provider, value)
    \/ \E provider \in KeyProviders, enabled \in BOOLEAN : toggleProvider(provider, enabled)
    \/ clearAllApiKeys
    \/ \E text \in BulkTexts : parseBulkApiKeys(text)

SpecKeys == InitKeys /\ [][NextKeys]_vars

\* config.enabled && (id === 'wikimedia' || config.apiKey)
Usable(providers, p) ==
    providers[p].enabled /\ (p = "wikimedia" \/ ~(providers[p].apiKey \in {"null", ""}))

\* C39: whatever saveApiKey, toggleProvider, clearAllApiKeys and
\* parseBulkApiKeys have done before and during a search, a request goes
\* out to provider p only if, when the fan-out starts, p is enabled and is
\* wikimedia or has a key that is not empty.
C39_OnlyUsableProvidersAsked ==
    [][ \A g \in 1..MaxSearches, p \in Providers :
            (p \in tasks'[g].pending /\ ~(p \in tasks[g].pending))
                => Usable(apiProviders, p) ]_vars
\* a search has asked pexels and not wikimedia: the key came after the page
\* was loaded and wikimedia was switched off, and pexels has been switched
\* off again while its request is open
C39_Witness ==
    \E g \in 1..MaxSearches :
        /\ probe.pc = "keys"
        /\ tasks[g].pc = "api"
        /\ tasks[g].pending = {"pexels"}
        /\ tasks[g].got["wikimedia"] = <<>>
        /\ probe.stored.wikimedia = "false"
        /\ ~apiProviders["pexels"].enabled

(***************************************************************************)
(* The title of one provider item.                                         *)
(***************************************************************************)
InitTitle ==
    /\ storage = EmptyStorage
    /\ now = 1
    /\ ret = NoRet
    /\ ops = 0
    /\ client = IdleClient
    /\ limits = NoLimits
    /\ direct = IdleDirect
    /\ seconds = 0
    /\ keyProbe = NoProbe
    /\ \E first \in PayloadTexts, second \in PayloadTexts, last \in PayloadTexts :
          probe = [pc |-> "idle", provider |-> "none", n |-> <<>>,
                   payload |-> [first |-> first, second |-> second, last |-> last]]
    /\ AppInit("none")

\* the results.map(...) of the search of a provider, for one payload
BuildItem(provider) ==
    /\ probe.pc = "idle"
    /\ probe' = [probe EXCEPT !.pc = "named", !.provider = provider,
                              !.n = ItemName(provider, probe.payload)]
    /\ UNCHANGED <<storage, ret, ops, client, limits, direct, seconds, keyProbe, now, appVars>>

NextTitle == \E provider \in Providers : BuildItem(provider)

SpecTitle == InitTitle /\ [][NextTitle]_vars

\* C25: the name of an item built by a provider search contains no HTML tag,
\* whatever the payload.
C25_NoHtmlInTitles ==
    probe.pc = "named" => ~containsHtmlTags(probe.n)

(***************************************************************************)
(* Properties of the sidebar filters.                                      *)
(***************************************************************************)
\* the licenses that count for an item: its own, else that of its source
LicensesOf(item) ==
    IF item.l # "" THEN {item.l}
    ELSE {sources(apiProviders)[i].license :
             i \in {j \in 1..Len(sources(apiProviders)) :
                       sources(apiProviders)[j].id = item.s}}
Kept(item, exSources, exLicenses) ==
    ~(item.s \in exSources) /\ LicensesOf(item) \cap exLicenses = {}
\* result holds, in the order of items, exactly the items at the positions keep
ExactlyInOrder(items, keep, result) ==
    \E f \in [1..Len(result) -> 1..Len(items)] :
        /\ \A i, j \in 1..Len(result) : i < j => f[i] < f[j]
        /\ {f[i] : i \in 1..Len(result)} = keep
        /\ \A i \in 1..Len(result) : result[i] = items[f[i]]

\* C26: applyFilters returns, in the original order, exactly the items whose
\* source is not excluded and whose effective license (their own, else their
\* source's) is not excluded; with both exclusion sets empty it returns every
\* item; and when clearAllFilters has run, both sets are empty until the
\* next handler runs.
C26_ExclusionFilter ==
    /\ probe.pc = "filtered"
          => /\ ExactlyInOrder(probe.items,
                               {i \in 1..Len(probe.items) :
                                   Kept(probe.items[i], probe.exSources, probe.exLicenses)},
                               probe.result)
             /\ (probe.exSources = {} /\ probe.exLicenses = {}) => probe.result = probe.items
    /\ (probe.pc = "cleared" /\ probe.searchId = currentSearchId)
          => excludedSources = {} /\ excludedLicenses = {}
\* an item without a license of its own was removed through its source's
\* license while another item stayed
C26_Witness ==
    /\ probe.pc = "filtered"
    /\ Len(probe.result) > 0
    /\ \E i \in 1..Len(probe.items) :
          /\ probe.items[i].l = ""
          /\ ~(probe.items[i].s \in probe.exSources)
          /\ ~(probe.items[i] \in Range(probe.result))

\* C27: after any sequence of branch and leaf toggles, a branch of the
\* sources tree is shown checked iff none of the sources under it is
\* excluded, and indeterminate iff some but not all of them are
\* (unchecking a branch excludes every source under it, checking it
\* removes them all).
C27_BranchShowsItsSources ==
    \A b \in Branches(apiProviders) :
        LET ids == Range(BranchSourceIds(b, apiProviders))
        IN  /\ sidebar.branch[b].checked <=> ids \cap excludedSources = {}
            /\ sidebar.branch[b].indeterminate
                  <=> (ids \cap excludedSources # {} /\ ~(ids \subseteq excludedSources))

(***************************************************************************)
(* Properties of the rate limit tracker and of _directRequest.             *)
(***************************************************************************)
\* the reserve of the documented rate limit strategy: 10% of a limit below
\* 100, 5% of a limit from 100 to 500, 3% of a limit above 500
ReserveThreshold(limit) ==
    IF limit < 100 THEN (limit * 10) \div 100
    ELSE IF limit <= 500 THEN (limit * 5) \div 100
    ELSE (limit * 3) \div 100

\* C13: shouldWait(p) is true exactly when a record exists for p and its
\* remaining count is at or below the reserve threshold of its limit.
C13_ShouldWaitAtReserve ==
    \A p \in DirectProviders :
        shouldWait(limits, p)
            <=> /\ limits[p].kind = "info"
                /\ limits[p].remaining <= ReserveThreshold(limits[p].limit)

\* C14: waitTime(p) is 0 when shouldWait(p) is false or no record exists,
\* else the time left until updatedAt + reset_seconds, never negative; with
\* remaining = 1 and limit = 100 shouldWait holds; a request that waits, waits
\* until reset_seconds after the record's update.
C14_WaitTimeClamped ==
    /\ \A p \in DirectProviders :
          LET info == limits[p]
              elapsed == seconds - info.updatedAt
              wait == waitTime(limits, p, seconds)
          IN  /\ wait >= 0
              /\ (info.kind = "none" \/ ~shouldWait(limits, p)) => wait = 0
              /\ shouldWait(limits, p)
                    => IF elapsed >= info.reset_seconds THEN wait = 0
                       ELSE wait + elapsed = info.reset_seconds
              /\ (info.kind = "info" /\ info.remaining = 1 /\ info.limit = 100)
                    => shouldWait(limits, p)
    /\ direct.pc = "waiting"
          => /\ direct.wait > 0
             /\ direct.started + direct.wait
                    = limits[direct.provider].updatedAt
                        + limits[direct.provider].reset_seconds

\* a request waits on a record with remaining = 1 and limit = 100
C14_Witness ==
    /\ direct.pc = "waiting"
    /\ limits[direct.provider].remaining = 1
    /\ limits[direct.provider].limit = 100
    /\ seconds > limits[direct.provider].updatedAt

\* C15: a request that finds shouldWait true is not sent before its wait time
\* has passed, is sent after the wait, and is never dropped for the rate limit.
C15_SentOnlyAfterWait ==
    [][ /\ (direct.pc = "waiting" /\ direct'.pc # "waiting")
              => /\ direct'.pc = "fetching"
                 /\ direct'.sent = 1
                 /\ seconds >= direct.started + direct.wait
        /\ (~(direct.pc \in {"waiting", "fetching"}) /\ direct' # direct
               /\ apiKeys[direct'.provider] # "null")
              => IF shouldWait(limits, direct'.provider)
                      /\ waitTime(limits, direct'.provider, seconds) > 0
                 THEN direct'.pc = "waiting" /\ direct'.sent = 0
                 ELSE direct'.pc = "fetching" /\ direct'.sent = 1 ]_vars

\* C16: every response, a 429 included, updates the tracker's record of the
\* provider from the response headers; a 429 makes the call fail with the rate
\* limit error; one call sends one request at most.
C16_ResponseUpdatesTracker ==
    [][ /\ direct'.sent <= 1
        /\ (direct.pc = "fetching" /\ direct'.status # 0)
              => /\ limits'[direct.provider] =
                        [kind |-> "info",
                         limit |-> HeaderInt(direct'.headers[1], DefaultLimit),
                         remaining |-> HeaderInt(direct'.headers[2], DefaultRemaining),
                         reset_seconds |-> HeaderInt(direct'.headers[3], DefaultReset),
                         updatedAt |-> seconds]
                 /\ direct'.sent = direct.sent
                 /\ direct'.status = 429
                       => direct'.pc = "threw" /\ direct'.error = "Rate limit exceeded"
        /\ (direct.status = 429 /\ direct'.provider = direct.provider
               /\ direct'.status = 429)
              => direct'.sent = direct.sent ]_vars

\* a call has failed on a 429 whose headers are in the tracker
C16_Witness ==
    /\ direct.status = 429
    /\ direct.pc = "threw"
    /\ direct.sent = 1
    /\ limits[direct.provider].remaining = 0

(***************************************************************************)
(* Properties of the search coordinator.                                   *)
(***************************************************************************)
\* no flow of the page is waiting for a fetch, a timer or a provider
Quiescent ==
    /\ ~searchDebounceTimer
    /\ \A t \in 0..MaxSearches : ~(tasks[t].pc \in {"shard", "sample", "timer", "api"})

\* the ranked list the search of a flow ends with
ResultsOf(task) ==
    rankResults(task.staticResults
                    \o applyFilters(Flat(ProviderOrder, task.got), excludedSources,
                                    excludedLicenses),
                task.query)

\* C1: when a search for q2 follows a search for q1 (both of two characters or
\* more) before q1's provider results were merged, then once all pending work
\* has completed the result container and currentResults hold q2's results.
C1_FinalViewIsLastQuery ==
    \A g \in 2..MaxSearches :
        ( /\ Quiescent
          /\ g = currentSearchId
          /\ Len(tasks[g - 1].query) >= MinQueryLength
          /\ Len(tasks[g].query) >= MinQueryLength
          /\ tasks[g - 1].pc \in {"stale", "cancelled"}
          /\ tasks[g].pc = "merged" )
        => /\ display.by = g
           /\ display.query = tasks[g].query
           /\ currentResults = ResultsOf(tasks[g])
           /\ display.items = Take(currentResults, ResultsShown)

\* C11: provider requests are issued for a search only when its 800 ms timer
\* has run its full delay since the local results were displayed, with no
\* newer performSearch in between; a search whose timer a newer performSearch
\* cleared (a burst) never issues a provider request.
C11_RequestsOnlyAfterDebounce ==
    [][ \A g \in 1..MaxSearches :
          /\ (tasks'[g].pending \ tasks[g].pending # {})
                => /\ g = currentSearchId
                   /\ tasks[g].pc = "timer"
                   /\ tasks[g].waited >= ApiDebounce
                   /\ apiSearchDebounceTimer = g
          /\ tasks'[g].pc = "cancelled"
                => tasks'[g].pending = {} /\ tasks'[g].got = NoGot ]_vars

\* a burst of two searches: the first one's timer was cleared before it ran,
\* the last one has issued its provider requests
C11_Witness ==
    \E g \in 2..MaxSearches :
        /\ tasks[g - 1].pc = "cancelled"
        /\ tasks[g].pc = "api"
        /\ tasks[g].pending # {}

\* C12: within one search generation the ranked local results are displayed
\* first, before any provider request of that generation is even issued, and
\* the merged list that replaces them later holds every local result.
C12_LocalFirst ==
    [][ \A g \in 1..MaxSearches :
          /\ (tasks'[g].pc \in {"timer", "local"} /\ ~(tasks[g].pc \in {"timer", "local"}))
                => /\ tasks'[g].pending = {}
                   /\ tasks'[g].got = NoGot
                   /\ display'.by = g
                   /\ display'.items = Take(rankResults(tasks'[g].staticResults,
                                                        tasks'[g].query), ResultsShown)
                   /\ currentResults' = rankResults(tasks'[g].staticResults, tasks'[g].query)
          /\ (tasks'[g].pc = "merged" /\ tasks[g].pc # "merged")
                => /\ tasks[g].pc \in {"timer", "api"}
                   /\ display'.by = g
                   /\ display'.items = Take(currentResults', ResultsShown)
                   /\ Range(tasks[g].staticResults) \subseteq Range(currentResults') ]_vars

\* local results and provider items of one search are displayed together
C12_Witness ==
    \E g \in 1..MaxSearches :
        /\ tasks[g].pc = "merged"
        /\ display.by = g
        /\ tasks[g].staticResults # <<>>
        /\ Range(tasks[g].staticResults) \subseteq Range(display.items)
        /\ \E i \in 1..Len(display.items) : display.items[i].api

\* C22: performSearch with a trimmed query of fewer than 2 characters cancels
\* the pending provider timer, loads and shows the sample view, and neither
\* schedules nor issues a provider request for its generation.
C22_ShortQueryNoFanOut ==
    [][ \A g \in 1..MaxSearches :
          /\ (currentSearchId = g - 1 /\ currentSearchId' = g
                 /\ Len(tasks'[g].query) < MinQueryLength)
                => /\ apiSearchDebounceTimer' = 0
                   /\ \A h \in 1..MaxSearches : tasks'[h].pc # "timer"
                   /\ tasks'[g].pc \in {"sample", "sampled"}
          /\ (tasks'[g].pc # "idle" /\ Len(tasks'[g].query) < MinQueryLength)
                => /\ tasks'[g].pc \in {"sample", "sampled", "failed"}
                   /\ tasks'[g].pending = {}
                   /\ tasks'[g].got = NoGot
                   /\ apiSearchDebounceTimer' # g
                   /\ (tasks'[g].pc = "sampled" /\ tasks[g].pc # "sampled")
                         => /\ display'.by = g
                            /\ display'.kind \in {"grid", "empty"}
                            /\ display'.kind = "grid" => display'.query = <<>> ]_vars

\* a short query has cancelled the timer of the search before it and has
\* shown its samples
C22_Witness ==
    \E g \in 2..MaxSearches :
        /\ tasks[g - 1].pc = "cancelled"
        /\ Len(tasks[g].query) < MinQueryLength
        /\ tasks[g].pc = "sampled"
        /\ display.by = g
        /\ display.kind = "grid"

\* C29: currentSearchId never decreases; every performSearch call (the 150 ms
\* timer firing, or a source checkbox changing) adds exactly 1 to it in the
\* step of the call, whatever the length of the query and whatever earlier
\* flows still await, and the flow it starts is the only one that ever
\* holds that generation.
C29_GenerationCounter ==
    [][ /\ currentSearchId' >= currentSearchId
        /\ ((searchDebounceTimer /\ ~searchDebounceTimer') \/ excludedSources' # excludedSources)
              => /\ currentSearchId' = currentSearchId + 1
                 /\ tasks[currentSearchId'].pc = "idle"
                 /\ tasks'[currentSearchId'].pc # "idle"
        /\ \A g \in 1..MaxSearches :
              /\ (tasks[g].pc = "idle" /\ tasks'[g].pc # "idle") => currentSearchId' = g
              /\ tasks[g].pc # "idle"
                    => tasks'[g].pc # "idle" /\ tasks'[g].query = tasks[g].query ]_vars
\* a short query and a long one each took a generation while the flow of
\* the generation before was still waiting for its providers
C29_Witness ==
    /\ currentSearchId = 2
    /\ tasks[1].pc = "api"
    /\ tasks[2].pc # "idle"
    /\ Len(tasks[2].query) < MinQueryLength

\* C30: a provider response that arrives for a superseded generation changes
\* neither the view nor currentResults, but a successful one is written to
\* apiCache; and a search whose 800 ms timer fires takes every provider's
\* unexpired cached response from apiCache and sends that provider no request.
C30_StaleResponsesCached ==
    [][ \A g \in 1..MaxSearches, p \in Providers :
          /\ (/\ tasks[g].pc = "api"
              /\ g # currentSearchId
              /\ p \in tasks[g].pending
              /\ ~(p \in tasks'[g].pending))
                => /\ display' = display
                   /\ currentResults' = currentResults
                   /\ tasks'[g].got[p] # <<>>
                         => /\ apiCache'[<<p, tasks[g].query>>].kind = "entry"
                            /\ apiCache'[<<p, tasks[g].query>>].data = tasks'[g].got[p]
                            /\ apiCache'[<<p, tasks[g].query>>].expires > now
          /\ (/\ tasks[g].pc = "timer"
              /\ tasks'[g].pc \in {"api", "merged"}
              /\ apiCache[<<p, tasks[g].query>>].kind = "entry"
              /\ apiCache[<<p, tasks[g].query>>].expires > now
              /\ p \in Range(getEnabledProviders(apiProviders)))
                => /\ ~(p \in tasks'[g].pending)
                   /\ tasks'[g].got[p] = apiCache[<<p, tasks[g].query>>].data ]_vars
\* the responses to a superseded search are in the cache, and the search that
\* superseded it, for the same query, has shown them without a request of
\* its own being open
C30_Witness ==
    /\ currentSearchId = 2
    /\ tasks[1].pc = "stale"
    /\ tasks[2].query = tasks[1].query
    /\ tasks[2].pc = "merged"
    /\ display.by = 2
    /\ \A p \in Range(getEnabledProviders(apiProviders)) :
          /\ tasks[1].got[p] # <<>>
          /\ apiCache[<<p, tasks[1].query>>].kind = "entry"
          /\ tasks[2].got[p] = apiCache[<<p, tasks[1].query>>].data

\* the shards whose fetch flow g awaits
Fetching(g) ==
    IF tasks[g].pc = "shard" THEN {Substring(tasks[g].query, 2)}
    ELSE IF tasks[g].pc = "sample" THEN {Take(prefixManifest, SamplePrefixes)[tasks[g].pos]}
    ELSE {}

\* C33: the shard of a prefix is fetched at most once during the life of the
\* page: no two flows (searches or sample loads) ever await a fetch of the
\* same shard, and no flow awaits a fetch of a shard that prefixCache holds.
C33_ShardFetchedOnce ==
    /\ \A g, h \in 0..MaxSearches : g # h => Fetching(g) \cap Fetching(h) = {}
    /\ \A g \in 0..MaxSearches : Fetching(g) \cap prefixCache = {}

\* the search of generation g is under way and no newer one has started
Searching(g) == currentSearchId = g /\ tasks[g].pc \in {"shard", "timer", "api"}
\* it has shown its last view: the local results when no provider is
\* enabled, the merged list otherwise
Terminal(g) ==
    \/ tasks[g].pc = "local" /\ Len(getEnabledProviders(apiProviders)) = 0
    \/ tasks[g].pc = "merged" /\ Len(getEnabledProviders(apiProviders)) > 0

\* C34: a search of a query of at least 2 characters that no newer search
\* supersedes and whose shard fetch does not fail shows its local results
\* and then, when a provider is enabled, the merged list: it reaches
\* LocalDisplayed (no provider enabled) or Merged, and the loading view of
\* the search does not stay.
C34_SearchReachesTerminal ==
    \A g \in 1..MaxSearches :
        /\ Searching(g) ~> (currentSearchId # g \/ tasks[g].pc = "failed" \/ Terminal(g))
        /\ (display.kind = "loading" /\ display.by = g)
              ~> (display.kind # "loading" \/ currentSearchId # g)
\* the merged list of a search is on the page
C34_Witness ==
    \E g \in 1..MaxSearches :
        /\ currentSearchId = g
        /\ tasks[g].pc = "merged"
        /\ display.by = g
        /\ display.stats = "found with APIs"

\* C36: at most one provider debounce timer is pending at any time, and a
\* pending timer belongs to the current generation (so that a timer that
\* fires finds its searchId equal to currentSearchId) and is the one that
\* apiSearchDebounceTimer holds.
C36_OnePendingTimer ==
    /\ Cardinality({g \in 1..MaxSearches : tasks[g].pc = "timer"}) <= 1
    /\ \A g \in 1..MaxSearches :
          tasks[g].pc = "timer" => g = currentSearchId /\ apiSearchDebounceTimer = g
\* the timer of a search is pending after the timer of the search before
\* it was cleared
C36_Witness ==
    \E g \in 2..MaxSearches :
        /\ tasks[g - 1].pc = "cancelled"
        /\ tasks[g].pc = "timer"
        /\ tasks[g].waited > 0

\* C2: a flow started by a performSearch call writes the result container,
\* statsText or currentResults only while its generation is the current one.
C2_StaleFlowsWriteNothing ==
    [][ ((display' # display \/ currentResults' # currentResults) /\ display'.by >= 1)
            => display'.by = currentSearchId' ]_vars

\* C3: a searchImages call over concurrently queried providers resolves, also
\* when one of them fails, with a result that holds the images of every
\* provider whose search was fulfilled; it never rejects.
C3_SearchImagesResolves ==
    ~(client.pc \in {"idle", "waiting"})
        => /\ client.pc = "resolved"
           /\ ~client.cached => client.result = ResultJson(client.status)

\* C20: the key of _cacheKey depends only on the provider, the method and the
\* set of (name, value) pairs with non-null values: the same pairs in any
\* insertion order give the same key, and different pairs give different keys.
C20_KeyDeterminedByPairs ==
    keyProbe.pc = "keyed"
        => (Pairs(keyProbe.params1) = Pairs(keyProbe.params2)
               <=> keyProbe.key1 = keyProbe.key2)

\* is the entry stored under key an unexpired one at time t
Unexpired(st, key, t) == st.items[key].kind = "entry" /\ t <= st.items[key].expires

\* C17: a search that finds an unexpired cache entry for its request key
\* returns the cached result, marked cached, and sends no request.
C17_CacheHitShortCircuits ==
    [][ (client.pc # "waiting" /\ ops' = ops + 1 /\ client' # client)
          => /\ Unexpired(storage, MultiKey, now)
                   => /\ client'.pc = "resolved"
                      /\ client'.cached
                      /\ client'.result = storage.items[MultiKey].value
             /\ \A p \in CacheProviders :
                   (~Unexpired(storage, MultiKey, now)
                      /\ Unexpired(storage, ProviderKey(p), now))
                     => client'.status[p] = "fulfilled" ]_vars

\* C18: when a provider search has completed successfully, its result is in
\* the cache under that provider request's key for the provider's cache
\* duration, so that the same search of that provider is a cache hit.
C18_WriteThroughOnSuccess ==
    [][ (client'.pc = "resolved" /\ ~client'.cached /\ client' # client)
          => \A p \in CacheProviders :
                client'.status[p] = "fulfilled"
                   => Unexpired(storage', ProviderKey(p), now) ]_vars

\* C19: no cache entry records the failed outcome of a provider: what the
\* cache holds for a search is the result of providers that all succeeded.
C19_FailuresNotCached ==
    storage.items[MultiKey].kind = "entry"
        => storage.items[MultiKey].value
              \in Values \cup {ResultJson([p \in CacheProviders |-> "fulfilled"])}

\* C4: while a search waits for a slow provider, the items of the providers
\* that have already responded are displayed.
C4_RespondedProvidersShown ==
    \A g \in 1..MaxSearches, p \in Providers :
        ( /\ g = currentSearchId
          /\ tasks[g].pc = "api"
          /\ display.by = g
          /\ ~(p \in tasks[g].pending) )
        => Range(applyFilters(tasks[g].got[p], excludedSources, excludedLicenses))
               \subseteq Range(display.items)

\* C4, amended: the merged list is computed and displayed only once every
\* provider queried by the search has settled; until then the view of the
\* search stays the ranked local results, without the items of the providers
\* that have already responded.
C4_MergeWaitsForAll ==
    \A g \in 1..MaxSearches :
        /\ tasks[g].pc = "merged" => tasks[g].pending = {}
        /\ (tasks[g].pc = "api" /\ display.by = g)
              => /\ tasks[g].pending # {}
                 /\ display.items =
                        Take(rankResults(tasks[g].staticResults, tasks[g].query), ResultsShown)

\* a provider has responded with items while another one is still awaited
C4_Witness ==
    \E g \in 1..MaxSearches, p \in Providers :
        /\ tasks[g].pc = "api"
        /\ display.by = g
        /\ tasks[g].got[p] # <<>>
        /\ tasks[g].pending # {}


(***************************************************************************)
(* Properties of the ProviderCache.                                        *)
(***************************************************************************)
Indexed(st, k) == k \in Range(_getIndex(st).keys) \/ _getIndex(st).timestamps[k] # 0
Live(st, k) == st.items[k].kind = "entry"

\* C21: every cache entry is written with a time-to-live of at least 24 hours
\* (the default time-to-live), however the cache is called.
C21_MinimumLifetime ==
    \A k \in CacheKeys :
        storage.items[k].kind = "entry"
            => storage.items[k].expires - storage.items[k].created >= DefaultTTL

\* C5 -- eviction invariant: immediately after every set() returns, the
\* number of live entries (stats().count) is at most maxSize.
C5_CountAtMostMaxSize == ret.op = "set" => StatsCount(storage) <= MaxSize

\* C6 -- cache/index consistency: a key is listed in the stored index (keys
\* and timestamps) if and only if a stored entry exists for that key.
C6_IndexMatchesEntries ==
    \A k \in CacheKeys :
        /\ (k \in Range(_getIndex(storage).keys)) <=> (storage.items[k].kind # "none")
        /\ (_getIndex(storage).timestamps[k] # 0) <=> (storage.items[k].kind # "none")

\* C7 -- TTL correctness: set stores expires = now + ttl, and a read of a
\* stored entry returns its value at every time strictly before expires and
\* reports it absent at every time strictly after expires.
C7_TtlCorrect ==
    [][\A k \in CacheKeys, pat \in WritePatterns :
         /\ \A v \in Values, ttl \in TTLs :
                (Set(k, v, ttl, pat) /\ Live(storage', k) /\ storage'.items[k] # storage.items[k])
                    => storage'.items[k] = Entry(v, now + ttl, now)
         /\ (Get(k, pat) /\ Live(storage, k))
                => /\ now < storage.items[k].expires => ret'.value = storage.items[k].value
                   /\ now > storage.items[k].expires => ret'.value = "null"]_vars

\* C8 -- read idempotence: a get of an unexpired key returns the stored value
\* and leaves the entry's value, creation time and expiration time as they
\* were, so that the next get returns the same value.
C8_GetKeepsEntry ==
    [][\A k \in CacheKeys, pat \in WritePatterns :
         (Get(k, pat) /\ Live(storage, k) /\ now <= storage.items[k].expires)
            => /\ ret'.value = storage.items[k].value
               /\ storage'.items[k] = storage.items[k]]_vars

\* the effect of one clear on the entries and on the index records
ClearedExactly(st, after, providerPrefix) ==
    /\ \A k \in CacheKeys :
          IF providerPrefix = "null" \/ StartsWith(k, providerPrefix)
          THEN /\ after.items[k] = NoEntry
               /\ IndexOf(_getIndex(after).keys, k) = 0
          ELSE /\ after.items[k] = st.items[k]
               /\ IndexOf(_getIndex(after).keys, k) > 0 <=> IndexOf(_getIndex(st).keys, k) > 0
               /\ _getIndex(after).timestamps[k] = _getIndex(st).timestamps[k]
    /\ providerPrefix = "null" => StatsCount(after) = 0

\* C28: clear(prefix) removes exactly the entries, and their index records,
\* whose key starts with prefix, and leaves every other entry, its value,
\* its expiration and its index record as they were; clear() without a
\* prefix removes every entry and leaves stats().count at 0.
C28_ScopedClear ==
    [][ \A p \in CacheProviders \cup {"multi", "null"}, pat \in WritePatterns :
            Clear(p, pat) => ClearedExactly(storage, storage', p) ]_vars

\* C31: a get of a key whose entry has expired returns absent and, in the
\* same call, removes the stored entry and its index record (key and access
\* timestamp): stats().count is one less and nothing is stored under the key.
C31_ExpiredReadRemoves ==
    [][ \A key \in CacheKeys, pat \in WritePatterns :
            (/\ Get(key, pat)
             /\ storage.items[key].kind = "entry"
             /\ now > storage.items[key].expires)
                => /\ ret'.value = "null"
                   /\ storage'.items[key] = NoEntry
                   /\ IndexOf(_getIndex(storage').keys, key) = 0
                   /\ _getIndex(storage').timestamps[key] = 0
                   /\ StatsCount(storage') = StatsCount(storage) - 1 ]_vars

\* the entries other than key that a step of the cache removed
Evicted(key) ==
    {j \in CacheKeys \ {key} : storage.items[j].kind = "entry" /\ storage'.items[j].kind = "none"}
\* the last access the index holds for a key
LastAccess(st, k) == _getIndex(st).timestamps[k]
\* no removed entry was used more recently than an entry that stayed
OldestFirst(key) ==
    \A a \in Evicted(key), b \in CacheKeys \ {key} :
        (storage.items[b].kind = "entry" /\ storage'.items[b].kind = "entry")
            => LastAccess(storage, a) <= LastAccess(storage, b)
\* set finds the index full and the key new
AtCapacity(key) ==
    StatsCount(storage) >= MaxSize /\ IndexOf(_getIndex(storage).keys, key) = 0

\* C32: the entries a set evicts are those with the oldest last access, a
\* get having refreshed it: an entry used more recently than another is never
\* evicted by a set that leaves the other one stored; and a set that evicts
\* for capacity on a store with room removes floor(maxSize/4) entries.
C32_OldestEvictedFirst ==
    [][ \A key \in CacheKeys, value \in Values, ttl \in TTLs, pat \in WritePatterns :
            Set(key, value, ttl, pat)
                => /\ OldestFirst(key)
                   /\ (AtCapacity(key) /\ pat = AllOk)
                         => Cardinality(Evicted(key)) = MaxSize \div 4 ]_vars

\* C37 -- termination under a failing store: when the storage rejects
\* every write, each operation that writes the index (set, get of a live
\* key, delete, clear) ends its chain of _setIndex and _evict calls.
\* An internal result with threw set is a chain that found no end.
C37_IndexWritesTerminate ==
    [][ /\ \A key \in CacheKeys, value \in Values, ttl \in TTLs :
              Set(key, value, ttl, FailAlways)
                  => ~set(storage, key, value, ttl, now, FailAlways).threw
        /\ \A key \in CacheKeys :
              (/\ Get(key, FailAlways)
               /\ storage.items[key].kind = "entry"
               /\ now <= storage.items[key].expires)
                  => LET index == _getIndex(storage)
                     IN ~_setIndex(storage, [index EXCEPT !.timestamps[key] = now],
                                   0, FailAlways).threw
        /\ \A key \in CacheKeys :
              Delete(key, FailAlways) => ~delete(storage, key, 0, FailAlways).threw
        /\ \A p \in CacheProviders \cup {"multi", "null"} :
              Clear(p, FailAlways) => ~clear(storage, p, FailAlways).threw ]_vars

\* C9 -- write-failure handling: whatever the storage does, set swallows the
\* failure and never throws to its caller.
C9_SetNeverThrows == ret.op = "set" => ~ret.threw

\* C10 -- degraded store: over a store that is empty, garbled or full, every
\* cache operation completes without throwing, and a read of a garbled key is
\* a cache miss.
C10_DegradedNeverThrows ==
    /\ ~ret.threw
    /\ (ret.op = "get" /\ storage.items[ret.key].kind = "corrupt") => ret.value = "null"

====
